---- MODULE Spec2Model ----
(***************************************************************************)
(* HealthRevo backend: the vitals anomaly engine (alert_service.py), the   *)
(* heuristic risk calculator (risk_service.py), the prescription analyzer  *)
(* (prescription_analyzer.py) and the alert store behind the routers       *)
(* (routers/vitals.py, routers/prescriptions.py, routers/alerts.py).       *)
(*                                                                         *)
(* Numbers: systolic, diastolic, heart_rate and oxygen_saturation are the  *)
(* Integer columns of models/vitals.py; blood_glucose is in mg/dL;         *)
(* temperature is in hundredths of a degree (39.0 is 3900) and weight in   *)
(* hundredths of a unit, the scale of their Numeric(_, 2) columns.  An     *)
(* absent (Python None) value is the integer None, below every value.      *)
(***************************************************************************)
EXTENDS Integers, Sequences, FiniteSets, TLC

VARIABLES
    \* AnomalyDetector.check_vitals_anomalies: its arguments and its result
    new_vital, historical_vitals, anomaly_alerts, anomaly_pc,
    \* RiskCalculator.calculate_diabetes_risk: its argument and its result
    vitals_list, risk_result, risk_pc,
    \* analyze_prescription: the medication list, the drug_interactions table
    \* and the result; ocr_text is the text a medication list is parsed from
    meds, drug_interactions, analysis, rx_pc, ocr_text,
    \* the database behind the routers (the alerts, vitals and prescriptions
    \* tables), its clock, and the response to the last request
    alerts, vitals, prescriptions, clock, response,
    \* the database sessions of the add_vitals requests in flight
    sessions

anomaly_vars == <<new_vital, historical_vitals, anomaly_alerts, anomaly_pc>>

risk_vars == <<vitals_list, risk_result, risk_pc>>

rx_vars == <<meds, drug_interactions, analysis, rx_pc, ocr_text>>

store_vars == <<alerts, vitals, prescriptions, clock, response, sessions>>

vars == <<anomaly_vars, risk_vars, rx_vars, store_vars>>

None == -1

(***************************************************************************)
(* Bounds of the model.                                                    *)
(***************************************************************************)
MaxHistory == 3

MaxWindow == 5

MaxMeds == 3

MaxRows == 2

MaxAlerts == 2

MaxVitals == 1

MaxPrescriptions == 2

\* the longest medication list an uploaded text holds
MaxBlocks == 2

\* the most lines of a text handed to the parser
MaxLines == 4

MaxSessions == 2

(***************************************************************************)
(* Generic helpers.                                                        *)
(***************************************************************************)
SeqsUpTo(S, n) == UNION {[1..k -> S] : k \in 0..n}

RECURSIVE SumSeq(_)
SumSeq(s) == IF s = <<>> THEN 0 ELSE Head(s) + SumSeq(Tail(s))

Abs(x) == IF x < 0 THEN -x ELSE x

\* Python truthiness of an optional number: None and 0 are both false.
Truthy(x) == x # None /\ x # 0

(***************************************************************************)
(* Python floats are IEEE 754 binary64 numbers: a 53-bit significand, and   *)
(* every operation rounded to the nearest, ties to the even significand.    *)
(* A natural number below 2^63 is held as three limbs of 21 bits, the most  *)
(* significant first; a non-negative float is the significand m, with       *)
(* 2^52 <= m < 2^53, and the exponent e of the value m * 2^e, or FloatZero. *)
(***************************************************************************)
Limb == 2^21

WideZero == <<0, 0, 0>>

WideOf(x) == <<0, x \div Limb, x % Limb>>

WideGe(a, b) ==
    \/ a[1] > b[1]
    \/ a[1] = b[1] /\ a[2] > b[2]
    \/ a[1] = b[1] /\ a[2] = b[2] /\ a[3] >= b[3]

\* a - b for a >= b
WideSub(a, b) ==
    LET l == a[3] - b[3]
        m == a[2] - b[2] - (IF l < 0 THEN 1 ELSE 0)
        h == a[1] - b[1] - (IF m < 0 THEN 1 ELSE 0)
    IN  <<h, (m + Limb) % Limb, (l + Limb) % Limb>>

\* a * k + c, for a small k and c
WideMulAdd(a, k, c) ==
    LET l == a[3] * k + c
        m == a[2] * k + (l \div Limb)
        h == a[1] * k + (m \div Limb)
    IN  <<h, m % Limb, l % Limb>>

WideHalve(a) ==
    <<a[1] \div 2, (a[2] + (a[1] % 2) * Limb) \div 2, (a[3] + (a[2] % 2) * Limb) \div 2>>

WideOdd(a) == a[3] % 2 = 1

RECURSIVE WideShl(_, _)
WideShl(a, k) == IF k = 0 THEN a ELSE WideShl(WideMulAdd(a, 2, 0), k - 1)

FloatZero == [m |-> WideZero, e |-> 0]

\* the float nearest to (n + h) * 2^e, where h is 0 when neither half nor
\* sticky is set, 1/2 when half alone is set, and otherwise lies strictly
\* between 0 and 1, above 1/2 exactly when half is set; n below 2^52 is
\* given exactly.  A value below the least positive float, 2^-1074, is taken
\* for zero.
RECURSIVE RoundToFloat(_, _, _, _)
RoundToFloat(n, e, half, sticky) ==
    IF n = WideZero \/ e < -1074 - 63 THEN FloatZero
    ELSE IF n[1] >= 2048
         THEN RoundToFloat(WideHalve(n), e + 1, WideOdd(n), sticky \/ half)
    ELSE IF n[1] < 1024
         THEN RoundToFloat(WideMulAdd(n, 2, 0), e - 1, FALSE, FALSE)
    ELSE IF half /\ (sticky \/ WideOdd(n))
         THEN LET up == WideMulAdd(n, 1, 1)
              IN  IF up[1] >= 2048 THEN [m |-> WideHalve(up), e |-> e + 1]
                  ELSE [m |-> up, e |-> e]
    ELSE [m |-> n, e |-> e]

\* float(x) of an int 0 <= x < 2^31, which is exact
FloatOf(x) == RoundToFloat(WideOf(x), 0, FALSE, FALSE)

\* long division: the quotient is (q + r / y) * 2^e with r < y; one more
\* bit a step until the quotient is exact or q has 55 bits
RECURSIVE FloatDivLoop(_, _, _, _)
FloatDivLoop(q, r, y, e) ==
    IF q[1] >= 4096 \/ r = WideZero \/ e < -1074 - 63
    THEN RoundToFloat(q, e, FALSE, r # WideZero)
    ELSE LET r2 == WideMulAdd(r, 2, 0)
         IN  IF WideGe(r2, y)
             THEN FloatDivLoop(WideMulAdd(q, 2, 1), WideSub(r2, y), y, e - 1)
             ELSE FloatDivLoop(WideMulAdd(q, 2, 0), r2, y, e - 1)

\* x / y for y > 0
FloatDiv(x, y) ==
    IF x = FloatZero THEN FloatZero
    ELSE IF WideGe(x.m, y.m)
         THEN FloatDivLoop(WideOf(1), WideSub(x.m, y.m), y.m, x.e - y.e)
         ELSE FloatDivLoop(WideZero, x.m, y.m, x.e - y.e)

\* abs(x - y), for exponents less than 11 apart
FloatAbsSub(x, y) ==
    IF x = FloatZero THEN y
    ELSE IF y = FloatZero THEN x
    ELSE LET e == IF x.e < y.e THEN x.e ELSE y.e
             a == WideShl(x.m, x.e - e)
             b == WideShl(y.m, y.e - e)
         IN  RoundToFloat(IF WideGe(a, b) THEN WideSub(a, b) ELSE WideSub(b, a),
                          e, FALSE, FALSE)

\* x * k for an int 0 < k < 2^10
FloatMulInt(x, k) == RoundToFloat(WideMulAdd(x.m, k, 0), x.e, FALSE, FALSE)

WideAdd(a, b) ==
    LET l == a[3] + b[3]
        m == a[2] + b[2] + (l \div Limb)
    IN  <<a[1] + b[1] + (m \div Limb), m % Limb, l % Limb>>

\* x + y, for exponents less than 11 apart
FloatAdd(x, y) ==
    IF x = FloatZero THEN y
    ELSE IF y = FloatZero THEN x
    ELSE LET e == IF x.e < y.e THEN x.e ELSE y.e
         IN  RoundToFloat(WideAdd(WideShl(x.m, x.e - e), WideShl(y.m, y.e - e)),
                          e, FALSE, FALSE)

\* the product of two significands is hi * 2^53 + lo with lo < 2^53; it is
\* summed over the k bits of y left, the highest first
RECURSIVE FloatMulLoop(_, _, _, _, _)
FloatMulLoop(hi, lo, x, y, k) ==
    IF k = 0 \/ hi[1] >= 2048 THEN <<hi, lo>>
    ELSE LET bit == y[1] >= 1024
             lo2 == IF bit THEN WideAdd(WideMulAdd(lo, 2, 0), x) ELSE WideMulAdd(lo, 2, 0)
         IN  FloatMulLoop(WideMulAdd(hi, 2, lo2[1] \div 2048),
                          <<lo2[1] % 2048, lo2[2], lo2[3]>>, x,
                          WideMulAdd(<<y[1] % 1024, y[2], y[3]>>, 2, 0), k - 1)

\* the float nearest to (hi + lo / 2^53) * 2^e, for hi >= 2^51
FloatRoundPair(hi, lo, e) ==
    IF hi[1] >= 1024
    THEN RoundToFloat(hi, e, lo[1] >= 1024, <<lo[1] % 1024, lo[2], lo[3]>> # WideZero)
    ELSE RoundToFloat(WideMulAdd(hi, 2, lo[1] \div 1024), e - 1,
                      (lo[1] % 1024) >= 512, <<lo[1] % 512, lo[2], lo[3]>> # WideZero)

\* x * y
FloatMul(x, y) ==
    IF x = FloatZero \/ y = FloatZero THEN FloatZero
    ELSE LET p == FloatMulLoop(WideZero, WideZero, x.m, y.m, 53)
         IN  FloatRoundPair(p[1], p[2], x.e + y.e + 53)

\* round(x, 2) in hundredths: the integer nearest to the exact x * 100, a
\* tie going to the even one
RECURSIVE WideShrRound(_, _, _, _)
WideShrRound(w, k, half, sticky) ==
    IF k = 0
    THEN w[2] * Limb + w[3] + (IF half /\ (sticky \/ WideOdd(w)) THEN 1 ELSE 0)
    ELSE IF w = WideZero /\ ~half /\ k > 1 THEN 0
    ELSE WideShrRound(WideHalve(w), k - 1, WideOdd(w), sticky \/ half)

FloatRoundHundredths(x) ==
    IF x = FloatZero THEN 0
    ELSE WideShrRound(WideMulAdd(x.m, 100, 0), -x.e, FALSE, FALSE)

\* x > y
FloatGt(x, y) ==
    IF x = FloatZero THEN FALSE
    ELSE IF y = FloatZero THEN TRUE
    ELSE \/ x.e > y.e
         \/ x.e = y.e /\ x.m # y.m /\ WideGe(x.m, y.m)

\* int(x) for 0 <= x < 2^31
RECURSIVE WideShr(_, _)
WideShr(a, k) == IF k = 0 \/ a = WideZero THEN a ELSE WideShr(WideHalve(a), k - 1)

FloatTrunc(x) ==
    LET w == WideShr(x.m, -x.e)
    IN  w[2] * Limb + w[3]

(***************************************************************************)
(* models/vitals.py: one reading, and the attribute names the detector     *)
(* looks up with getattr.                                                  *)
(***************************************************************************)
Vitals(s, d, hr, t, bg, o2) ==
    [systolic |-> s, diastolic |-> d, heart_rate |-> hr, temperature |-> t,
     blood_glucose |-> bg, oxygen_saturation |-> o2]

vital_checks ==
    <<"systolic", "diastolic", "heart_rate", "temperature", "blood_glucose",
      "oxygen_saturation">>

\* alert_service.py:152-159 and 189: the title f"{display_name} Anomaly"
anomaly_title(vital_attr) ==
    CASE vital_attr = "systolic" -> "Systolic Blood Pressure Anomaly"
      [] vital_attr = "diastolic" -> "Diastolic Blood Pressure Anomaly"
      [] vital_attr = "heart_rate" -> "Heart Rate Anomaly"
      [] vital_attr = "temperature" -> "Temperature Anomaly"
      [] vital_attr = "blood_glucose" -> "Blood Glucose Anomaly"
      [] vital_attr = "oxygen_saturation" -> "Oxygen Saturation Anomaly"

(***************************************************************************)
(* services/alert_service.py: a finding is the dict the detector appends.  *)
(* title, severity and type are the dict's own; vital_type and value are   *)
(* its alert_metadata; direction and percentage_change are the two parts   *)
(* of the message a statistical finding computes ("" and None elsewhere).  *)
(***************************************************************************)
EmergencyFinding(sev, title, vital_type, value) ==
    [severity |-> sev, type |-> "vital_emergency", title |-> title,
     vital_type |-> vital_type, value |-> value,
     direction |-> "", percentage_change |-> None]

\* alert_service.py:38-46
SystolicRuleInclusive(vital) ==
    IF Truthy(vital.systolic) /\ vital.systolic >= 180
    THEN <<EmergencyFinding("urgent", "Hypertensive Crisis", "systolic_bp", vital.systolic)>>
    ELSE <<>>

SystolicRule(vital) ==
    IF Truthy(vital.systolic) /\ vital.systolic > 180
    THEN <<EmergencyFinding("urgent", "Hypertensive Crisis", "systolic_bp", vital.systolic)>>
    ELSE <<>>

\* alert_service.py:48-56
DiastolicRule(vital) ==
    IF Truthy(vital.diastolic) /\ vital.diastolic > 120
    THEN <<EmergencyFinding("urgent", "Diastolic Hypertensive Crisis", "diastolic_bp", vital.diastolic)>>
    ELSE <<>>

\* alert_service.py:58-77
HeartRateRule(vital) ==
    IF Truthy(vital.heart_rate)
    THEN IF vital.heart_rate > 120
         THEN <<EmergencyFinding("serious", "Tachycardia Detected", "heart_rate", vital.heart_rate)>>
         ELSE IF vital.heart_rate < 50
              THEN <<EmergencyFinding("serious", "Bradycardia Detected", "heart_rate", vital.heart_rate)>>
              ELSE <<>>
    ELSE <<>>

\* alert_service.py:79-98
OxygenRule(vital) ==
    IF Truthy(vital.oxygen_saturation)
    THEN IF vital.oxygen_saturation < 90
         THEN <<EmergencyFinding("urgent", "Low Oxygen Saturation", "oxygen_saturation", vital.oxygen_saturation)>>
         ELSE IF vital.oxygen_saturation < 95
              THEN <<EmergencyFinding("serious", "Reduced Oxygen Saturation", "oxygen_saturation", vital.oxygen_saturation)>>
              ELSE <<>>
    ELSE <<>>

\* alert_service.py:100-119
GlucoseRule(vital) ==
    IF Truthy(vital.blood_glucose)
    THEN IF vital.blood_glucose > 300
         THEN <<EmergencyFinding("urgent", "Severe Hyperglycemia", "blood_glucose", vital.blood_glucose)>>
         ELSE IF vital.blood_glucose < 70
              THEN <<EmergencyFinding("urgent", "Hypoglycemia", "blood_glucose", vital.blood_glucose)>>
              ELSE <<>>
    ELSE <<>>

\* alert_service.py:121-140 (39.0 and 35.0 degrees, in hundredths)
TemperatureRule(vital) ==
    IF Truthy(vital.temperature)
    THEN IF vital.temperature > 3900
         THEN <<EmergencyFinding("serious", "High Fever", "temperature", vital.temperature)>>
         ELSE IF vital.temperature < 3500
              THEN <<EmergencyFinding("serious", "Hypothermia Risk", "temperature", vital.temperature)>>
              ELSE <<>>
    ELSE <<>>

_check_emergency_thresholds(vital) ==
    SystolicRule(vital) \o DiastolicRule(vital) \o HeartRateRule(vital)
        \o OxygenRule(vital) \o GlucoseRule(vital) \o TemperatureRule(vital)

\* alert_service.py:167-170: the non-null historical values of one attribute
historical_values(vital_attr, hist) ==
    SelectSeq([i \in 1..Len(hist) |-> hist[i][vital_attr]], LAMBDA x : x # None)

\* settings.anomaly_threshold_percentage (config.py:47)
anomaly_threshold_percentage == 20

\* alert_service.py:172-173, the guard of the per-attribute statistics
EnoughHistoryUnguarded(values) == TRUE

EnoughHistory(values) == Len(values) >= 3

\* alert_service.py:176: statistics.mean raises StatisticsError on no data
MeanRaises(vital_attr, vital, hist) ==
    /\ vital[vital_attr] # None
    /\ EnoughHistory(historical_values(vital_attr, hist))
    /\ historical_values(vital_attr, hist) = <<>>

\* models/vitals.py:15-20: the Integer columns hold Python ints, the Numeric
\* columns (temperature, blood_glucose) hold Decimals
integer_columns == {"systolic", "diastolic", "heart_rate", "oxygen_saturation"}

\* alert_service.py:149, an int divided by an int: a float
threshold_percentage == FloatDiv(FloatOf(anomaly_threshold_percentage), FloatOf(100))

\* alert_service.py:176-184 on ints, n values of sum sm > 0.  statistics.mean
\* gives the float nearest to sm/n (the int itself when n divides sm, which
\* a float holds exactly); the difference, the quotient and the product by
\* 100 are float operations.
float_deviation(current_value, sm, n) ==
    LET mean_value == FloatDiv(FloatOf(sm), FloatOf(n))
        deviation_percentage ==
            FloatDiv(FloatAbsSub(FloatOf(current_value), mean_value), mean_value)
    IN  [significant |-> FloatGt(deviation_percentage, threshold_percentage),
         increased |-> FloatGt(FloatOf(current_value), mean_value),
         percentage_change |-> FloatTrunc(FloatMulInt(deviation_percentage, 100))]

\* alert_service.py:176-184 on Decimals of two places.  The mean and the
\* quotient are rounded to 28 digits and compared exactly with the float
\* threshold, which lies 0.4 * 2^-55 above threshold/100: an error far below
\* the least distance of a deviation of such values from threshold/100, so
\* the test is |current*n - sm| * 100 > threshold * sm.
decimal_deviation(current_value, sm, n) ==
    LET dev == Abs(current_value * n - sm)
    IN  [significant |-> dev * 100 > anomaly_threshold_percentage * sm,
         increased |-> current_value * n > sm,
         percentage_change |-> (dev * 100) \div sm]

\* alert_service.py:161-198, one iteration of the loop; mean > 0 is sm > 0
StatisticalRule(vital_attr, vital, hist) ==
    LET current_value == vital[vital_attr]
        values == historical_values(vital_attr, hist)
        n == Len(values)
        sm == SumSeq(values)
        deviation == IF vital_attr \in integer_columns
                     THEN float_deviation(current_value, sm, n)
                     ELSE decimal_deviation(current_value, sm, n)
    IN  IF current_value = None THEN <<>>
        ELSE IF ~EnoughHistory(values) THEN <<>>
        ELSE IF sm > 0 /\ deviation.significant
             THEN <<[severity |-> "mild", type |-> "anomaly",
                     title |-> anomaly_title(vital_attr),
                     vital_type |-> vital_attr, value |-> current_value,
                     direction |-> IF deviation.increased THEN "increased" ELSE "decreased",
                     percentage_change |-> deviation.percentage_change]>>
             ELSE <<>>

RECURSIVE StatisticalLoop(_, _, _)
StatisticalLoop(i, vital, hist) ==
    IF i > Len(vital_checks) THEN <<>>
    ELSE StatisticalRule(vital_checks[i], vital, hist) \o StatisticalLoop(i + 1, vital, hist)

_check_statistical_anomalies(vital, hist) == StatisticalLoop(1, vital, hist)

\* a detector that puts the statistical findings first
check_vitals_anomalies_statistical_first(vital, hist) ==
    (IF Len(hist) >= 3 THEN _check_statistical_anomalies(vital, hist) ELSE <<>>)
        \o _check_emergency_thresholds(vital)

\* alert_service.py:13-29
check_vitals_anomalies(vital, hist) ==
    _check_emergency_thresholds(vital)
        \o (IF Len(hist) >= 3 THEN _check_statistical_anomalies(vital, hist) ELSE <<>>)

\* the call raises when the statistical pass runs and one of its means raises
check_vitals_anomalies_raises(vital, hist) ==
    /\ Len(hist) >= 3
    /\ \E i \in 1..Len(vital_checks) : MeanRaises(vital_checks[i], vital, hist)

(***************************************************************************)
(* Inputs of the anomaly engine.                                           *)
(***************************************************************************)
SystolicInputs == {None, 0, 120, 180, 181, 230}

HeartRateInputs == {None, 45, 130}

\* diastolic, temperature, blood_glucose, oxygen_saturation of a new reading
OtherInputs == {<<None, None, None, None>>, <<80, 3700, 100, 98>>, <<125, 3950, 310, 85>>}

NewVitalInputs ==
    {Vitals(s, o[1], hr, o[2], o[3], o[4]) :
        s \in SystolicInputs, hr \in HeartRateInputs, o \in OtherInputs}

HistoricalInputs ==
    {Vitals(None, None, None, None, None, None),
     Vitals(120, 80, 70, 3700, 100, 98),
     Vitals(150, None, 100, None, 150, None),
     Vitals(None, 60, None, 3650, None, 90),
     Vitals(0, 0, 0, 0, 0, 0)}

AnomalyIdle ==
    /\ new_vital = Vitals(None, None, None, None, None, None)
    /\ historical_vitals = <<>>
    /\ anomaly_alerts = <<>>
    /\ anomaly_pc = "idle"

RiskIdle ==
    /\ vitals_list = <<>>
    /\ risk_result = [called |-> FALSE]
    /\ risk_pc = "idle"

RxIdle ==
    /\ meds = <<>>
    /\ drug_interactions = {}
    /\ analysis = [status |-> "none"]
    /\ rx_pc = "idle"
    /\ ocr_text = <<>>

\* a session that holds nothing: not begun, or closed
NoSession ==
    [pc |-> "idle", patient_id |-> None, pending_vitals |-> <<>>,
     payload |-> [systolic |-> None, diastolic |-> None, heartRate |-> None,
                  temperature |-> None, bloodGlucose |-> None,
                  oxygenSaturation |-> None, weight |-> None]]

\* the tables as seeded: no alert, no reading, and one prescription of
\* patient 1 that create_prescription stored without flags
StoreIdle ==
    /\ sessions = [r \in 1..MaxSessions |-> NoSession]
    /\ alerts = <<>>
    /\ vitals = <<>>
    /\ prescriptions = <<[patient_id |-> 1, parsed_medications |-> <<"Amoxicillin">>, flags |-> <<>>]>>
    /\ clock = 0
    /\ response = [kind |-> "none", status |-> 0, detail |-> "", items |-> <<>>]

InitAnomaly ==
    /\ RiskIdle
    /\ RxIdle
    /\ StoreIdle
    /\ new_vital \in NewVitalInputs
    /\ historical_vitals \in SeqsUpTo(HistoricalInputs, MaxHistory)
    /\ anomaly_alerts = <<>>
    /\ anomaly_pc = "call"

CheckVitalsAnomalies ==
    /\ anomaly_pc = "call"
    /\ IF check_vitals_anomalies_raises(new_vital, historical_vitals)
       THEN anomaly_alerts' = <<>> /\ anomaly_pc' = "raised"
       ELSE /\ anomaly_alerts' = check_vitals_anomalies(new_vital, historical_vitals)
            /\ anomaly_pc' = "done"
    /\ UNCHANGED <<new_vital, historical_vitals, risk_vars, rx_vars, store_vars>>

NextAnomaly == CheckVitalsAnomalies

SpecAnomaly == InitAnomaly /\ [][NextAnomaly]_vars

(***************************************************************************)
(* Claims about the anomaly engine.                                        *)
(***************************************************************************)
FindingsTitled(findings, title) ==
    SelectSeq(findings, LAMBDA f : f.title = title)

StatisticalFindingsFor(findings, vital_attr) ==
    SelectSeq(findings, LAMBDA f : f.type = "anomaly" /\ f.vital_type = vital_attr)

\* C1: a reading with systolic > 180 gets exactly one finding titled
\* "Hypertensive Crisis", of severity urgent; a reading whose systolic is 180,
\* lower or absent gets none.
C1_HypertensiveCrisis ==
    anomaly_pc = "done" =>
        LET crisis == FindingsTitled(anomaly_alerts, "Hypertensive Crisis")
        IN  IF new_vital.systolic # None /\ new_vital.systolic > 180
            THEN Len(crisis) = 1 /\ crisis[1].severity = "urgent"
                 /\ crisis[1].value = new_vital.systolic
            ELSE crisis = <<>>

C1_Witness ==
    /\ anomaly_pc = "done"
    /\ new_vital.systolic = 181
    /\ Len(FindingsTitled(anomaly_alerts, "Hypertensive Crisis")) = 1

\* C2: an attribute with fewer than 3 non-null values in the historical
\* window gets no statistical anomaly finding, and the call completes.
C2_SparseHistorySkipped ==
    /\ anomaly_pc # "raised"
    /\ anomaly_pc = "done" =>
        \A i \in 1..Len(vital_checks) :
            Len(historical_values(vital_checks[i], historical_vitals)) < 3
                => StatisticalFindingsFor(anomaly_alerts, vital_checks[i]) = <<>>

\* a window of three readings, of which only two carry the attribute, next to
\* an attribute of the same window that has three values and is reported
C2_Witness ==
    /\ anomaly_pc = "done"
    /\ Len(historical_vitals) = 3
    /\ Len(historical_values("diastolic", historical_vitals)) = 2
    /\ new_vital.diastolic = 125
    /\ StatisticalFindingsFor(anomaly_alerts, "diastolic") = <<>>
    /\ StatisticalFindingsFor(anomaly_alerts, "systolic") # <<>>

(***************************************************************************)
(* services/risk_service.py.  A score is kept exact: with n glucose        *)
(* readings of sum sm the mean is sm/n and every score of the function is  *)
(* a multiple of 1/(2n), so a score is its numerator over the denominator  *)
(* 2n.  The returned score, round(score, 2), is in hundredths.             *)
(***************************************************************************)
Min(a, b) == IF a < b THEN a ELSE b

Max(a, b) == IF a > b THEN a ELSE b

RECURSIVE MaxSeq(_)
MaxSeq(s) == IF Len(s) = 1 THEN s[1] ELSE Max(Head(s), MaxSeq(Tail(s)))

\* round(x, 0) of a / b for a >= 0 and b > 0, a tie going to the even neighbour
RoundDiv(a, b) ==
    LET q == a \div b
        r == a % b
    IN  IF 2 * r < b THEN q
        ELSE IF 2 * r > b THEN q + 1
        ELSE q + (q % 2)

\* risk_service.py:90-94
glucose_readings(vl) ==
    SelectSeq([i \in 1..Len(vl) |-> vl[i].blood_glucose], LAMBDA x : x # None)

\* models/vitals.py:19 and risk_service.py:104-113: blood_glucose is a Numeric
\* column, so the readings and their mean are Decimals.  A mean below 100
\* gives the int 0; from 100 on the score is Decimal * 1.5 or Decimal * 0.5,
\* a Decimal times a float, which raises TypeError.
diabetes_risk_raises(vl) ==
    LET readings == glucose_readings(vl)
    IN  readings # <<>> /\ SumSeq(readings) >= 100 * Len(readings)

\* risk_service.py:108-119 for a mean below 100
DiabetesScore(max_glucose) ==
    LET forced == IF max_glucose > 200 THEN Max(0, 80) ELSE 0
    IN  Min(100, Max(0, forced))

\* risk_service.py:121-129
DiabetesRiskLevel(score) ==
    IF score < 25 THEN "low"
    ELSE IF score < 50 THEN "moderate"
    ELSE IF score < 75 THEN "high"
    ELSE "critical"

\* risk_service.py:164-177
_get_diabetes_recommendations(score) ==
    (IF score > 30
     THEN <<"Monitor blood glucose regularly", "Follow diabetic diet guidelines",
            "Maintain regular exercise routine">>
     ELSE <<>>)
    \o (IF score > 70
        THEN <<"Urgent medical consultation required", "Review medication adherence">>
        ELSE <<>>)

\* risk_service.py:87-145 when it returns; the score is in hundredths
calculate_diabetes_risk(vl) ==
    LET readings == glucose_readings(vl)
        n == Len(readings)
        score == DiabetesScore(MaxSeq(readings))
    IN  IF readings = <<>>
        THEN [called |-> TRUE, score |-> 0, risk_level |-> "low",
              drivers |-> "no_data", confidence |-> 0, recommendations |-> <<>>]
        ELSE [called |-> TRUE, score |-> score * 100,
              risk_level |-> DiabetesRiskLevel(score),
              drivers |-> "glucose", confidence |-> Min(100, n * 25),
              recommendations |-> _get_diabetes_recommendations(score)]

(***************************************************************************)
(* Inputs of the risk calculator: windows of readings that differ in their *)
(* blood glucose.                                                          *)
(***************************************************************************)
GlucoseInputs == {None, 90, 120, 150, 180, 210}

RiskReadings == {Vitals(None, None, None, None, bg, None) : bg \in GlucoseInputs}

InitRisk ==
    /\ AnomalyIdle
    /\ RxIdle
    /\ StoreIdle
    /\ vitals_list \in SeqsUpTo(RiskReadings, MaxWindow)
    /\ risk_result = [called |-> FALSE]
    /\ risk_pc = "call"

CalculateDiabetesRisk ==
    /\ risk_pc = "call"
    /\ IF diabetes_risk_raises(vitals_list)
       THEN risk_result' = [called |-> FALSE] /\ risk_pc' = "raised"
       ELSE /\ risk_result' = calculate_diabetes_risk(vitals_list)
            /\ risk_pc' = "done"
    /\ UNCHANGED <<vitals_list, anomaly_vars, rx_vars, store_vars>>

NextRisk == CalculateDiabetesRisk

SpecRisk == InitRisk /\ [][NextRisk]_vars

(***************************************************************************)
(* Claims about the risk calculator.                                       *)
(***************************************************************************)
\* the window holds at least 5 glucose readings and their mean is 150 mg/dL
Mean150Window ==
    LET readings == glucose_readings(vitals_list)
    IN  Len(readings) >= 5 /\ SumSeq(readings) = 150 * Len(readings)

\* C3: on a window of at least 5 glucose readings of mean 150 the call
\* returns a score in [70, 92.5] and the risk level "high".
C3_Mean150IsHigh ==
    (risk_pc \in {"done", "raised"} /\ Mean150Window) =>
        /\ risk_pc = "done"
        /\ risk_result.score >= 7000 /\ risk_result.score <= 9250
        /\ risk_result.risk_level = "high"

(***************************************************************************)
(* services/prescription_analyzer.py.                                      *)
(*                                                                         *)
(* A string is its lowercased, trimmed text (base) with two marks: caps,   *)
(* it holds an upper-case letter, and pad, it has surrounding whitespace.  *)
(* str.lower() clears caps, str.strip() clears pad, and two strings are    *)
(* equal when text and marks are.  The empty text has no letters.          *)
(***************************************************************************)
Str(base, caps, pad) == [base |-> base, caps |-> caps /\ base # "", pad |-> pad]

lower(s) == [s EXCEPT !.caps = FALSE]

strip(s) == [s EXCEPT !.pad = FALSE]

EmptyStr == Str("", FALSE, FALSE)

\* the keywords of the analyzer that occur in a lower-case text
Keywords(base) ==
    CASE base = "paracetamol" -> {"paracetamol"}
      [] base = "amoxicillin" -> {"amoxicillin"}
      [] base = "1000 mg" -> {"1000", "mg"}
      [] base = "650 mg" -> {"650", "mg"}
      [] base = "500 mg" -> {"mg"}
      [] base = "twice daily" -> {"twice"}
      [] base = "three times a day" -> {"three", "times a day"}
      [] base = "four times a day" -> {"four", "times a day"}
      [] base = "every 8 hours" -> {"every 8", "every"}
      [] base = "3. amoxicillin" -> {"amoxicillin"}
      [] base = "650 mg three times a day" -> {"650", "mg", "three", "times a day"}
      [] base = "every 8 hours with food" -> {"every 8", "every", "with"}
      [] base = "after meals" -> {"after meals"}
      [] base = "gargle as needed" -> {"gargle", "as needed"}
      [] base = "1 tablet twice daily" -> {"tablet", "twice"}
      [] OTHER -> {}

\* Python's  kw in s : a case-sensitive substring test against a lower-case
\* keyword
Contains(s, kw) == ~s.caps /\ kw \in Keywords(s.base)

\* the prefixes of routers/prescriptions.py:26 that a lower-case text starts
\* with
Prefixes(base) ==
    CASE base = "tab. aspirin" -> {"tab"}
      [] base = "2. warfarin" -> {"2."}
      [] base = "3. amoxicillin" -> {"3."}
      [] OTHER -> {}

\* Python's  s.startswith(prefix)  against a lower-case prefix
StartsWith(s, prefix) == ~s.caps /\ prefix \in Prefixes(s.base)

\* a medication dict; has_name is FALSE when the key is missing or None
Medication(has_name, name, dose, frequency) ==
    [has_name |-> has_name, name |-> name, dose |-> dose, frequency |-> frequency]

\* m.get("name") as a condition: the key is there and the string is not ""
NameGiven(m) == m.has_name /\ m.name # EmptyStr

\* prescription_analyzer.py:10-11
_norm(m) == IF m.has_name THEN lower(strip(m.name)) ELSE EmptyStr

\* prescription_analyzer.py:15
interaction_names(ms) ==
    LET given == SelectSeq(ms, NameGiven)
    IN  [i \in 1..Len(given) |-> strip(given[i].name)]

\* the names of line 15 taken as they are, a case variant counting as
\* another name
names_as_given(names) == names

\* prescription_analyzer.py:16, list({n.lower(): n for n in names}.values()):
\* one entry per lower-case name, in the order the names first occur, each
\* holding the last spelling given
unique_names(names) ==
    LET first(i) == \A k \in 1..(i - 1) : lower(names[k]) # lower(names[i])
        lastOf(i) == CHOOSE k \in 1..Len(names) :
                        /\ lower(names[k]) = lower(names[i])
                        /\ \A l \in (k + 1)..Len(names) : lower(names[l]) # lower(names[i])
        firsts == SelectSeq([i \in 1..Len(names) |-> i], first)
    IN  [i \in 1..Len(firsts) |-> names[lastOf(firsts[i])]]

\* prescription_analyzer.py:22-27, the rows the statement selects
MatchingRowsOneWay(rows, a, b) ==
    {r \in rows : lower(r.drug_a) = lower(a) /\ lower(r.drug_b) = lower(b)}

MatchingRows(rows, a, b) ==
    {r \in rows :
        \/ lower(r.drug_a) = lower(a) /\ lower(r.drug_b) = lower(b)
        \/ lower(r.drug_a) = lower(b) /\ lower(r.drug_b) = lower(a)}

\* the index pairs i < j of the double loop, in its order
RECURSIVE PairsFrom(_, _, _)
PairsFrom(i, j, n) ==
    IF i >= n THEN <<>>
    ELSE IF j > n THEN PairsFrom(i + 1, i + 2, n)
    ELSE <<<<i, j>>>> \o PairsFrom(i, j + 1, n)

\* a lookup that takes the first of several matching rows and never raises
check_interactions_takes_first(rows, ms) == FALSE

\* prescription_analyzer.py:29, scalar_one_or_none raises MultipleResultsFound
check_interactions_raises(rows, ms) ==
    LET unique == unique_names(interaction_names(ms))
    IN  \E i, j \in 1..Len(unique) :
            i < j /\ Cardinality(MatchingRows(rows, unique[i], unique[j])) > 1

\* prescription_analyzer.py:19-29, the pairs (a, b) that db.execute is called
\* with, in the order of the calls: the double loop runs until a lookup raises
queried_pairs(rows, ms) ==
    LET unique == unique_names(interaction_names(ms))
        pairs == PairsFrom(1, 2, Len(unique))
        raises(k) == Cardinality(MatchingRows(rows, unique[pairs[k][1]], unique[pairs[k][2]])) > 1
        last == IF \E k \in 1..Len(pairs) : raises(k)
                THEN CHOOSE k \in 1..Len(pairs) : raises(k) /\ \A l \in 1..(k - 1) : ~raises(l)
                ELSE Len(pairs)
    IN  [k \in 1..last |-> <<unique[pairs[k][1]], unique[pairs[k][2]]>>]

\* prescription_analyzer.py:14-39
check_interactions(rows, ms) ==
    LET unique == unique_names(interaction_names(ms))
        pairs == PairsFrom(1, 2, Len(unique))
        hit(p) == MatchingRows(rows, unique[p[1]], unique[p[2]]) # {}
        hits == SelectSeq(pairs, hit)
        entry(p) ==
            LET match == CHOOSE r \in MatchingRows(rows, unique[p[1]], unique[p[2]]) : TRUE
            IN  [drugA |-> unique[p[1]], drugB |-> unique[p[2]],
                 severity |-> match.severity, description |-> match.description]
    IN  [k \in 1..Len(hits) |-> entry(hits[k])]

\* prescription_analyzer.py:44-70, the rules of one medication
MedicationFindings(m) ==
    LET name == _norm(m)
        dose == lower(m.dose)
        freq == lower(m.frequency)
    IN  (IF (Contains(name, "paracetamol") \/ Contains(name, "acetaminophen"))
            /\ Contains(dose, "1000")
         THEN <<[severity |-> "medium", type |-> "dose",
                 message |-> <<"High single dose of paracetamol (1000 mg). Review total daily dose.">>]>>
         ELSE <<>>)
        \o (IF (Contains(name, "paracetamol") \/ Contains(name, "acetaminophen"))
               /\ Contains(dose, "650")
               /\ (Contains(freq, "three") \/ Contains(freq, "four"))
            THEN <<[severity |-> "medium", type |-> "frequency",
                    message |-> <<"Paracetamol 650 mg taken >=3 times daily may exceed safe limits.">>]>>
            ELSE <<>>)
        \o (IF Contains(name, "amoxicillin")
               /\ ~(Contains(freq, "twice") \/ Contains(freq, "three") \/ Contains(freq, "every 8"))
            THEN <<[severity |-> "low", type |-> "frequency",
                    message |-> <<"Amoxicillin frequency looks uncommon; verify dosing interval.">>]>>
            ELSE <<>>)

RECURSIVE RuleFindings(_)
RuleFindings(ms) ==
    IF ms = <<>> THEN <<>> ELSE MedicationFindings(Head(ms)) \o RuleFindings(Tail(ms))

DuplicateFinding(n) ==
    [severity |-> "low", type |-> "duplicate",
     message |-> <<"Duplicate medication entries detected for", n>>]

\* prescription_analyzer.py:72-85 with the names compared as they were typed
DuplicateFindingsAsTyped(ms) ==
    LET names == [i \in 1..Len(ms) |-> IF ms[i].has_name THEN ms[i].name ELSE EmptyStr]
        first(i) == names[i] # EmptyStr /\ \A k \in 1..(i - 1) : names[k] # names[i]
        count(i) == Cardinality({k \in 1..Len(ms) : names[k] = names[i]})
        dup(i) == first(i) /\ count(i) > 1
        dups == SelectSeq([i \in 1..Len(ms) |-> i], dup)
    IN  [k \in 1..Len(dups) |-> DuplicateFinding(names[dups[k]])]

\* prescription_analyzer.py:72-85: seen counts the normalized names that are
\* not empty, and its items come in the order the names first occur
DuplicateFindings(ms) ==
    LET names == [i \in 1..Len(ms) |-> _norm(ms[i])]
        first(i) == names[i] # EmptyStr /\ \A k \in 1..(i - 1) : names[k] # names[i]
        count(i) == Cardinality({k \in 1..Len(ms) : names[k] = names[i]})
        dup(i) == first(i) /\ count(i) > 1
        dups == SelectSeq([i \in 1..Len(ms) |-> i], dup)
    IN  [k \in 1..Len(dups) |-> DuplicateFinding(names[dups[k]])]

\* prescription_analyzer.py:42-87
check_dosage_rules(ms) == RuleFindings(ms) \o DuplicateFindings(ms)

\* line 110 without "contraindicated" in its first tuple
interaction_flag_severity_major_only(severity) ==
    IF severity = "major" THEN "high"
    ELSE IF severity = "moderate" THEN "medium"
    ELSE "low"

\* prescription_analyzer.py:110, the severity of an interaction's flag
interaction_flag_severity(severity) ==
    IF severity \in {"major", "contraindicated"} THEN "high"
    ELSE IF severity = "moderate" THEN "medium"
    ELSE "low"

\* prescription_analyzer.py:90-125, when check_interactions returns
analyze_prescription(rows, ms) ==
    LET interactions == check_interactions(rows, ms)
        findings == check_dosage_rules(ms)
        issues ==
            (IF interactions # <<>> THEN <<"potential drug interaction(s) detected">> ELSE <<>>)
            \o (IF \E k \in 1..Len(findings) : findings[k].severity = "medium"
                THEN <<"dosage/frequency review recommended">> ELSE <<>>)
            \o (IF \E k \in 1..Len(findings) : findings[k].type = "duplicate"
                THEN <<"duplicate entries found">> ELSE <<>>)
        interaction_flags ==
            [k \in 1..Len(interactions) |->
                [severity |-> interaction_flag_severity(interactions[k].severity),
                 message |-> <<"Interaction", interactions[k].drugA, interactions[k].drugB,
                               interactions[k].description>>]]
    IN  [status |-> "ok",
         summary |-> IF issues = <<>>
                     THEN <<"All medications look within expected ranges.">>
                     ELSE issues,
         interaction_count |-> Len(interactions),
         interactions |-> interactions,
         findings |-> findings,
         flags |-> interaction_flags
                   \o [k \in 1..Len(findings) |->
                        [severity |-> findings[k].severity, message |-> findings[k].message]]]

(***************************************************************************)
(* Inputs of the analyzer.  The rows of drug_interactions are what         *)
(* utils/data_loader.py stores: trimmed, non-empty drug names in the case  *)
(* of the source file, and no uniqueness constraint on the pair.           *)
(***************************************************************************)
DrugNames == {"aspirin", "warfarin", "amoxicillin"}

NameInputs ==
    {Str(b, c, p) : b \in DrugNames, c \in BOOLEAN, p \in BOOLEAN}
        \cup {EmptyStr, Str("", FALSE, TRUE)}

MedicationInputs ==
    {Medication(TRUE, n, EmptyStr, EmptyStr) : n \in NameInputs}
        \cup {Medication(FALSE, EmptyStr, EmptyStr, EmptyStr),
              Medication(TRUE, Str("paracetamol", TRUE, FALSE),
                         Str("1000 mg", FALSE, FALSE), Str("twice daily", FALSE, FALSE)),
              Medication(TRUE, Str("paracetamol", FALSE, FALSE),
                         Str("650 mg", FALSE, FALSE), Str("four times a day", TRUE, FALSE))}

InteractionRow(a, b, severity, description) ==
    [drug_a |-> a, drug_b |-> b, severity |-> severity, description |-> description]

RowInputs ==
    {InteractionRow(Str("aspirin", FALSE, FALSE), Str("warfarin", FALSE, FALSE),
                    "major", "bleeding risk"),
     InteractionRow(Str("warfarin", TRUE, FALSE), Str("aspirin", TRUE, FALSE),
                    "moderate", "increased INR"),
     InteractionRow(Str("aspirin", TRUE, FALSE), Str("warfarin", FALSE, FALSE),
                    "major", "bleeding"),
     InteractionRow(Str("amoxicillin", TRUE, FALSE), Str("warfarin", FALSE, FALSE),
                    "minor", "monitor INR"),
     InteractionRow(Str("amoxicillin", FALSE, FALSE), Str("aspirin", TRUE, FALSE),
                    "contraindicated", "avoid")}

InitRx ==
    /\ AnomalyIdle
    /\ RiskIdle
    /\ StoreIdle
    /\ meds \in SeqsUpTo(MedicationInputs, MaxMeds)
    /\ drug_interactions \in {rows \in SUBSET RowInputs : Cardinality(rows) <= MaxRows}
    /\ analysis = [status |-> "none"]
    /\ rx_pc = "call"
    /\ ocr_text = <<>>

AnalyzePrescription ==
    /\ rx_pc = "call"
    /\ analysis' = (IF check_interactions_raises(drug_interactions, meds)
                    THEN [status |-> "raised"]
                    ELSE analyze_prescription(drug_interactions, meds))
                   @@ [queried |-> queried_pairs(drug_interactions, meds)]
    /\ rx_pc' = "done"
    /\ UNCHANGED <<meds, drug_interactions, ocr_text, anomaly_vars, risk_vars, store_vars>>

NextRx == AnalyzePrescription

SpecRx == InitRx /\ [][NextRx]_vars

(***************************************************************************)
(* Claims about the prescription analyzer.                                 *)
(***************************************************************************)
\* the name the lookup compares: trimmed and lower-cased
LookupName(m) == lower(strip(m.name))

\* medications i and j carry the two drugs of row r, in either order
MatchesRow(i, j, r) ==
    /\ NameGiven(meds[i]) /\ NameGiven(meds[j])
    /\ \/ LookupName(meds[i]) = lower(r.drug_a) /\ LookupName(meds[j]) = lower(r.drug_b)
       \/ LookupName(meds[i]) = lower(r.drug_b) /\ LookupName(meds[j]) = lower(r.drug_a)

\* the interactions reported for the two drugs of row r
InteractionsFor(r) ==
    {k \in 1..Len(analysis.interactions) :
        {lower(analysis.interactions[k].drugA), lower(analysis.interactions[k].drugB)}
            = {lower(r.drug_a), lower(r.drug_b)}}

\* the table holds one row per unordered pair of drugs
OneRowPerPair ==
    \A r1, r2 \in drug_interactions :
        {lower(r1.drug_a), lower(r1.drug_b)} = {lower(r2.drug_a), lower(r2.drug_b)} => r1 = r2

\* C4: when the table holds one row per pair of drugs and two medications
\* of the list carry, up to case and surrounding whitespace, the two drugs of
\* a row, the analysis reports exactly one interaction for that pair, with the
\* row's severity, in whichever order the medications come and whichever way
\* round the row stores the drugs; the flag of a "major" row has severity
\* "high".
C4_SymmetricLookup ==
    (rx_pc = "done" /\ OneRowPerPair) =>
        \A r \in drug_interactions : \A i, j \in 1..Len(meds) :
            (i # j /\ MatchesRow(i, j, r)) =>
                /\ analysis.status = "ok"
                /\ Cardinality(InteractionsFor(r)) = 1
                /\ \A k \in InteractionsFor(r) :
                    /\ analysis.interactions[k].severity = r.severity
                    /\ r.severity = "major" => analysis.flags[k].severity = "high"

\* the medications come as (warfarin, aspirin), in capitals and padded, and
\* the row stores (aspirin, warfarin) with severity major
C4_Witness ==
    /\ rx_pc = "done"
    /\ OneRowPerPair
    /\ Len(meds) = 2
    /\ meds[1].has_name /\ meds[1].name = Str("warfarin", TRUE, TRUE)
    /\ meds[2].has_name /\ meds[2].name.base = "aspirin"
    /\ \E r \in drug_interactions : r.severity = "major" /\ MatchesRow(1, 2, r)
    /\ analysis.status = "ok"
    /\ Len(analysis.interactions) = 1
    /\ analysis.flags[1].severity = "high"

\* the duplicate findings of the result that name n
DuplicateFindingsNaming(n) ==
    {k \in 1..Len(analysis.findings) : analysis.findings[k] = DuplicateFinding(n)}

DuplicateFindingsOfResult ==
    {k \in 1..Len(analysis.findings) : analysis.findings[k].type = "duplicate"}

Occurrences(n) == Cardinality({i \in 1..Len(meds) : _norm(meds[i]) = n})

\* the medications that have a name and whose normalized name is n
NamedOccurrences(n) ==
    Cardinality({i \in 1..Len(meds) : meds[i].has_name /\ _norm(meds[i]) = n})

\* C5 as stated: every normalized name of the list that occurs more than
\* once gets exactly one duplicate finding, of severity "low" and naming it,
\* and a name that occurs once gets none.
C5_EveryRepeatedNameReported ==
    (rx_pc = "done" /\ analysis.status = "ok") =>
        \A i \in 1..Len(meds) :
            meds[i].has_name =>
                Cardinality(DuplicateFindingsNaming(_norm(meds[i])))
                    = IF NamedOccurrences(_norm(meds[i])) > 1 THEN 1 ELSE 0

\* C5 as amended: every non-empty normalized name of the list that occurs
\* more than once gets exactly one duplicate finding, of severity "low" and
\* naming it; a name that occurs once gets none, and neither does a name that
\* is empty once trimmed, however often it occurs; there is no other
\* duplicate finding.
C5_RepeatedNamesReported ==
    (rx_pc = "done" /\ analysis.status = "ok") =>
        /\ \A i \in 1..Len(meds) :
            Cardinality(DuplicateFindingsNaming(_norm(meds[i])))
                = IF _norm(meds[i]) # EmptyStr /\ Occurrences(_norm(meds[i])) > 1
                  THEN 1 ELSE 0
        /\ \A k \in DuplicateFindingsOfResult :
            /\ analysis.findings[k].severity = "low"
            /\ \E i \in 1..Len(meds) : analysis.findings[k] = DuplicateFinding(_norm(meds[i]))

\* the same drug typed twice in different case and padding: one finding
C5_Witness ==
    /\ rx_pc = "done" /\ analysis.status = "ok"
    /\ Len(meds) = 2
    /\ meds[1].has_name /\ meds[2].has_name
    /\ meds[1].name = Str("aspirin", TRUE, FALSE)
    /\ meds[2].name = Str("aspirin", FALSE, TRUE)
    /\ Cardinality(DuplicateFindingsOfResult) = 1
    /\ DuplicateFindingsNaming(Str("aspirin", FALSE, FALSE)) # {}

(***************************************************************************)
(* The routers over the database.  Users and patients are the rows of      *)
(* scripts/seed_data.py: user 1 is the doctor, users 2 and 3 are patients  *)
(* and own the patient profiles 1 and 2.  User 4 is an admin and user 5 a  *)
(* user of role patient whose profile row is missing.                      *)
(***************************************************************************)
UserIds == 1..3

AllUserIds == 1..5

\* User.role
role(u) ==
    IF u = 1 THEN "doctor"
    ELSE IF u = 4 THEN "admin"
    ELSE "patient"

PatientIds == 1..2

\* Patient.user_id
patient_user_id(pid) == pid + 1

\* select(Patient.id).where(Patient.user_id == current_user.id), None if no row
patient_id_of(u) ==
    IF \E pid \in PatientIds : patient_user_id(pid) = u
    THEN CHOOSE pid \in PatientIds : patient_user_id(pid) = u
    ELSE None

Ok == [status |-> 200, detail |-> ""]

\* an access check that lets every user who is not a patient through
staff_or_own_patient_access(patient_id, u) ==
    IF patient_id \notin PatientIds THEN [status |-> 401, detail |-> "Patient not found"]
    ELSE IF role(u) # "patient" THEN Ok
    ELSE IF patient_user_id(patient_id) # u
         THEN [status |-> 403, detail |-> "Access denied"]
         ELSE Ok

\* dependencies.py:90-114
get_patient_or_doctor_access(patient_id, u) ==
    IF patient_id \notin PatientIds THEN [status |-> 401, detail |-> "Patient not found"]
    ELSE IF role(u) = "doctor" THEN Ok
    ELSE IF role(u) = "patient"
         THEN IF patient_user_id(patient_id) # u
              THEN [status |-> 403, detail |-> "Access denied"]
              ELSE Ok
    ELSE [status |-> 403, detail |-> "Insufficient permissions"]

Failure(kind, err) ==
    [kind |-> kind, status |-> err.status, detail |-> err.detail, items |-> <<>>]

Success(kind, items) ==
    [kind |-> kind, status |-> 200, detail |-> "", items |-> items]

\* models/alert.py:23-51: a row of alerts as the INSERT leaves it, with the
\* column defaults (acknowledged, resolved, priority_score) and the server
\* default of generated_at
Alert(patient_id, severity, type, title, message, recommendation, alert_metadata, now) ==
    [patient_id |-> patient_id, generated_at |-> now, severity |-> severity,
     type |-> type, title |-> title, message |-> message,
     acknowledged |-> FALSE, acknowledged_at |-> None, acknowledged_by |-> None,
     resolved |-> FALSE, resolved_at |-> None,
     alert_metadata |-> alert_metadata, recommendation |-> recommendation,
     priority_score |-> 0, assigned_to |-> None]

\* routers/alerts.py:14-35
_alert_to_dict(id, a) ==
    [id |-> id, patientId |-> a.patient_id, generatedAt |-> a.generated_at,
     severity |-> a.severity, type |-> a.type, title |-> a.title,
     message |-> a.message,
     acknowledged |-> a.acknowledged, acknowledgedAt |-> a.acknowledged_at,
     resolved |-> a.resolved, resolvedAt |-> a.resolved_at,
     metadata |-> a.alert_metadata, recommendation |-> a.recommendation,
     priority |-> a.priority_score]

\* x or 0
OrZero(x) == IF Truthy(x) THEN x ELSE 0

\* routers/vitals.py:82-84: a temperature above 45 is taken as Fahrenheit.
\* The value is exact, a numerator over a denominator, in hundredths.
normalize_temperature(temp) ==
    IF temp # None /\ temp > 4500
    THEN [num |-> (temp - 3200) * 5, den |-> 9]
    ELSE [num |-> temp, den |-> 1]

\* routers/vitals.py:87-89: a weight above 200 is taken as pounds and divided
\* by 2.20462 = 110231 / 50000
normalize_weight(weight) ==
    IF weight # None /\ weight > 20000
    THEN RoundDiv(weight * 50000, 110231)
    ELSE weight

\* routers/vitals.py:91-102: the row, its Numeric(_, 2) columns rounded
vitals_row(patient_id, payload, now) ==
    LET temp == normalize_temperature(payload.temperature)
    IN  [patient_id |-> patient_id, recorded_at |-> now,
         systolic |-> payload.systolic, diastolic |-> payload.diastolic,
         heart_rate |-> payload.heartRate,
         temperature |-> IF temp.num = None THEN None ELSE RoundDiv(temp.num, temp.den),
         blood_glucose |-> payload.bloodGlucose,
         oxygen_saturation |-> payload.oxygenSaturation,
         weight |-> normalize_weight(payload.weight)]

\* the ladder of lines 115-145 reading the systolic value only
blood_pressure_alerts_systolic_only(patient_id, s, d, now) ==
    IF s >= 180
    THEN <<Alert(patient_id, "critical", "risk_threshold", "Hypertensive Crisis",
                 <<"BP", s, d, "exceeds crisis threshold">>,
                 "Seek immediate medical attention", <<s, d>>, now)>>
    ELSE IF s >= 160
    THEN <<Alert(patient_id, "urgent", "risk_threshold", "Severely Elevated Blood Pressure",
                 <<"BP", s, d, "is severely elevated">>,
                 "Review antihypertensive therapy", <<s, d>>, now)>>
    ELSE IF s >= 140
    THEN <<Alert(patient_id, "serious", "risk_threshold", "Elevated Blood Pressure",
                 <<"BP", s, d, "is above normal">>,
                 "Monitor and consider medication adjustment", <<s, d>>, now)>>
    ELSE <<>>

\* routers/vitals.py:115-145
blood_pressure_alerts(patient_id, s, d, now) ==
    IF s >= 180 \/ d >= 120
    THEN <<Alert(patient_id, "critical", "risk_threshold", "Hypertensive Crisis",
                 <<"BP", s, d, "exceeds crisis threshold">>,
                 "Seek immediate medical attention", <<s, d>>, now)>>
    ELSE IF s >= 160 \/ d >= 100
    THEN <<Alert(patient_id, "urgent", "risk_threshold", "Severely Elevated Blood Pressure",
                 <<"BP", s, d, "is severely elevated">>,
                 "Review antihypertensive therapy", <<s, d>>, now)>>
    ELSE IF s >= 140 \/ d >= 90
    THEN <<Alert(patient_id, "serious", "risk_threshold", "Elevated Blood Pressure",
                 <<"BP", s, d, "is above normal">>,
                 "Monitor and consider medication adjustment", <<s, d>>, now)>>
    ELSE <<>>

\* routers/vitals.py:147-157
heart_rate_alerts(patient_id, hr, now) ==
    IF hr >= 130
    THEN <<Alert(patient_id, "urgent", "anomaly", "Tachycardia Detected",
                 <<"Heart rate", hr>>, "Assess for arrhythmia or dehydration", <<hr>>, now)>>
    ELSE <<>>

\* routers/vitals.py:159-179
blood_glucose_alerts(patient_id, bg, now) ==
    IF bg >= 250
    THEN <<Alert(patient_id, "urgent", "risk_threshold", "Severe Hyperglycemia",
                 <<"Blood glucose", bg>>,
                 "Review insulin/medication; check for DKA symptoms", <<bg>>, now)>>
    ELSE IF bg >= 180
    THEN <<Alert(patient_id, "serious", "risk_threshold", "Hyperglycemia",
                 <<"Blood glucose", bg>>,
                 "Dietary review and medication adherence", <<bg>>, now)>>
    ELSE <<>>

\* routers/vitals.py:181-191
oxygen_alerts(patient_id, spo2, now) ==
    IF spo2 # 0 /\ spo2 <= 92
    THEN <<Alert(patient_id, IF spo2 <= 88 THEN "urgent" ELSE "serious", "anomaly",
                 "Low Oxygen Saturation", <<"SpO2", spo2>>,
                 "Evaluate respiratory status", <<spo2>>, now)>>
    ELSE <<>>

\* a fever rule that raises a serious alert
fever_alerts_serious(patient_id, t, now) ==
    IF t.num # None /\ t.num # 0 /\ t.num >= 3800 * t.den
    THEN <<Alert(patient_id, "serious", "anomaly", "Fever Detected",
                 <<"Temperature", RoundDiv(t.num, 10 * t.den)>>,
                 "Hydration and symptomatic care; monitor", <<t.num, t.den>>, now)>>
    ELSE <<>>

\* routers/vitals.py:193-203: t is the exact temperature, 38.0 is 3800
fever_alerts(patient_id, t, now) ==
    IF t.num # None /\ t.num # 0 /\ t.num >= 3800 * t.den
    THEN <<Alert(patient_id, "mild", "anomaly", "Fever Detected",
                 <<"Temperature", RoundDiv(t.num, 10 * t.den)>>,
                 "Hydration and symptomatic care; monitor", <<t.num, t.den>>, now)>>
    ELSE <<>>

\* routers/vitals.py:107-203
alerts_to_create(patient_id, payload, now) ==
    blood_pressure_alerts(patient_id, OrZero(payload.systolic), OrZero(payload.diastolic), now)
        \o heart_rate_alerts(patient_id, OrZero(payload.heartRate), now)
        \o blood_glucose_alerts(patient_id,
                                IF payload.bloodGlucose = None THEN 0 ELSE payload.bloodGlucose, now)
        \o oxygen_alerts(patient_id, OrZero(payload.oxygenSaturation), now)
        \o fever_alerts(patient_id, normalize_temperature(payload.temperature), now)

\* routers/vitals.py:58-210.  The reading and its alerts are inserted at the
\* database time of the request, one tick after the last insert.
add_vitals(u, patient_id, payload) ==
    LET access == get_patient_or_doctor_access(patient_id, u)
        now == clock + 1
        created == alerts_to_create(patient_id, payload, now)
    IN  IF access.status # 200
        THEN /\ response' = Failure("add_vitals", access)
             /\ UNCHANGED <<alerts, vitals, prescriptions, clock>>
        ELSE /\ Len(vitals) < MaxVitals
             /\ Len(alerts) + Len(created) <= MaxAlerts
             /\ vitals' = Append(vitals, vitals_row(patient_id, payload, now))
             /\ alerts' = alerts \o created
             /\ clock' = now
             /\ response' = Success("add_vitals", <<vitals_row(patient_id, payload, now)>>)
             /\ UNCHANGED prescriptions

\* routers/prescriptions.py:170-173.  flags is a plain JSON column: when the
\* stored list is not empty the handler appends to the loaded list itself and
\* assigns the same object back, which the unit of work sees as unchanged, so
\* only a list built afresh (stored flags empty or null) is written.
adjusted_flags(flags, u) ==
    IF flags = <<>> THEN <<[severity |-> "low", message |-> <<"Adjusted by user", u>>]>>
    ELSE flags

\* routers/prescriptions.py:144-199.  parsed_medications, also plain JSON, is
\* changed in place (meds[0] = m0) and so never written.
update_prescription(u, patient_id, prescription_id, updates) ==
    LET access == get_patient_or_doctor_access(patient_id, u)
        found == /\ prescription_id \in 1..Len(prescriptions)
                 /\ prescriptions[prescription_id].patient_id = patient_id
        now == clock + 1
    IN  IF access.status # 200
        THEN /\ response' = Failure("update_prescription", access)
             /\ UNCHANGED <<alerts, vitals, prescriptions, clock>>
        ELSE IF ~found
        THEN /\ response' = Failure("update_prescription",
                                    [status |-> 404, detail |-> "Prescription not found"])
             /\ UNCHANGED <<alerts, vitals, prescriptions, clock>>
        ELSE /\ Len(alerts) < MaxAlerts
             /\ prescriptions' =
                    [prescriptions EXCEPT ![prescription_id].flags = adjusted_flags(@, u)]
             /\ alerts' = Append(alerts,
                    Alert(patient_id, "mild", "drug_interaction", "Prescription Adjusted",
                          <<"Prescription", prescription_id, "was adjusted">>,
                          "", <<prescription_id, updates>>, now))
             /\ clock' = now
             /\ response' = Success("update_prescription", <<prescriptions'[prescription_id]>>)
             /\ UNCHANGED vitals

\* bool(payload[key]) of a JSON value
py_bool(v) == v \notin {"false", "null", "0", "empty string"}

\* an acknowledge that sets the flag and leaves the stamps of an earlier
\* acknowledgement when the flag is cleared
acknowledge_keeping_stamps(alert, payload, u, now) ==
    IF "acknowledged" \in DOMAIN payload
    THEN LET on == py_bool(payload.acknowledged)
         IN  [alert EXCEPT !.acknowledged = on,
                           !.acknowledged_at = IF on THEN now ELSE @,
                           !.acknowledged_by = IF on THEN u ELSE @]
    ELSE alert

\* routers/alerts.py:109-112
acknowledge(alert, payload, u, now) ==
    IF "acknowledged" \in DOMAIN payload
    THEN LET on == py_bool(payload.acknowledged)
         IN  [alert EXCEPT !.acknowledged = on,
                           !.acknowledged_at = IF on THEN now ELSE None,
                           !.acknowledged_by = IF on THEN u ELSE None]
    ELSE alert

\* a resolve that also withdraws the acknowledgement
resolve_clearing_acknowledgement(alert, payload, now) ==
    IF "resolved" \in DOMAIN payload
    THEN LET on == py_bool(payload.resolved)
         IN  [alert EXCEPT !.resolved = on,
                           !.resolved_at = IF on THEN now ELSE None,
                           !.acknowledged = FALSE,
                           !.acknowledged_at = None,
                           !.acknowledged_by = None]
    ELSE alert

\* routers/alerts.py:114-116
resolve(alert, payload, now) ==
    IF "resolved" \in DOMAIN payload
    THEN LET on == py_bool(payload.resolved)
         IN  [alert EXCEPT !.resolved = on,
                           !.resolved_at = IF on THEN now ELSE None]
    ELSE alert

\* routers/alerts.py:108-116
updated_alert(alert, payload, u, now) ==
    resolve(acknowledge(alert, payload, u, now), payload, now)

\* an update_alert without the ownership test of lines 98-106
update_alert_unchecked(u, alert_id, payload) ==
    IF alert_id \notin 1..Len(alerts)
    THEN /\ response' = Failure("update_alert", [status |-> 404, detail |-> "Alert not found"])
         /\ UNCHANGED <<alerts, vitals, prescriptions, clock>>
    ELSE /\ alerts' = [alerts EXCEPT ![alert_id] = updated_alert(@, payload, u, clock)]
         /\ response' = Success("update_alert", <<_alert_to_dict(alert_id, alerts'[alert_id])>>)
         /\ UNCHANGED <<vitals, prescriptions, clock>>

\* routers/alerts.py:86-121
update_alert(u, alert_id, payload) ==
    IF alert_id \notin 1..Len(alerts)
    THEN /\ response' = Failure("update_alert", [status |-> 404, detail |-> "Alert not found"])
         /\ UNCHANGED <<alerts, vitals, prescriptions, clock>>
    ELSE IF role(u) = "patient" /\ alerts[alert_id].patient_id # patient_id_of(u)
    THEN /\ response' = Failure("update_alert", [status |-> 403, detail |-> "Not allowed"])
         /\ UNCHANGED <<alerts, vitals, prescriptions, clock>>
    ELSE /\ alerts' = [alerts EXCEPT ![alert_id] = updated_alert(@, payload, u, clock)]
         /\ response' = Success("update_alert", <<_alert_to_dict(alert_id, alerts'[alert_id])>>)
         /\ UNCHANGED <<vitals, prescriptions, clock>>

\* routers/alerts.py:51-78: the ids of the rows the WHERE clauses keep.  The
\* query parameters severity and acknowledged are "None" when not given.
list_alerts_where(u, patient_id, severity, acknowledged) ==
    {id \in 1..Len(alerts) :
        /\ IF role(u) = "patient"
           THEN IF patient_id = None
                THEN alerts[id].patient_id = patient_id_of(u)
                ELSE alerts[id].patient_id = patient_id
           ELSE patient_id = None \/ alerts[id].patient_id = patient_id
        /\ severity = "None" \/ alerts[id].severity = severity
        /\ acknowledged = "None" \/ alerts[id].acknowledged = (acknowledged = "true")}

\* routers/alerts.py:49: ORDER BY generated_at DESC.  Rows of one generation
\* time come in any order the database likes.
order_by_generated_at_desc(ids) ==
    {order \in [1..Cardinality(ids) -> ids] :
        \A i, j \in 1..Cardinality(ids) :
            i < j => /\ order[i] # order[j]
                     /\ alerts[order[i]].generated_at >= alerts[order[j]].generated_at}

\* routers/alerts.py:49: OFFSET offset LIMIT limit
offset_limit(order, offset, limit) ==
    SubSeq(order, offset + 1, Min(Len(order), offset + limit))

\* routers/alerts.py:40-83
list_alerts(u, patient_id, severity, acknowledged, limit, offset) ==
    /\ \E order \in order_by_generated_at_desc(
                        list_alerts_where(u, patient_id, severity, acknowledged)) :
            LET page == offset_limit(order, offset, limit)
            IN  response' = Success("list_alerts",
                    [i \in 1..Len(page) |-> _alert_to_dict(page[i], alerts[page[i]])])
    /\ UNCHANGED <<alerts, vitals, prescriptions, clock>>

(***************************************************************************)
(* Requests.                                                               *)
(***************************************************************************)
VitalsPayload(s, d, hr, t, bg, o2, w) ==
    [systolic |-> s, diastolic |-> d, heartRate |-> hr, temperature |-> t,
     bloodGlucose |-> bg, oxygenSaturation |-> o2, weight |-> w]

\* a normal reading, a crisis, a fast pulse with low oxygen, a fever given in
\* Fahrenheit with a weight given in pounds
VitalsPayloads ==
    {VitalsPayload(120, 80, 70, 3700, 100, 98, None),
     VitalsPayload(185, 125, None, None, None, None, None),
     VitalsPayload(None, None, 135, None, None, 90, None),
     VitalsPayload(None, None, None, 10130, None, None, 22000)}

RequestedPatientIds == 1..3

\* the bodies of PATCH /alerts/{id}: every choice of keys with true and
\* false, and two values that are not booleans
AlertPayloads ==
    UNION {[keys -> {"true", "false"}] : keys \in SUBSET {"acknowledged", "resolved"}}
        \cup {[acknowledged |-> "null"], [resolved |-> "text"]}

\* the query parameters of GET /alerts
PatientIdParams == {None, 1, 2}

SeverityParams == {"None", "critical", "mild"}

AcknowledgedParams == {"None", "true"}

LimitParams == {1, 50}

OffsetParams == {0, 1}

\* the body of PATCH /prescriptions/{id}: a change of dose
PrescriptionUpdates == {"dose"}

AddVitals ==
    \E u \in UserIds, pid \in RequestedPatientIds, payload \in VitalsPayloads :
        add_vitals(u, pid, payload)

UpdatePrescription ==
    \E u \in UserIds, pid \in RequestedPatientIds, id \in 1..2, updates \in PrescriptionUpdates :
        update_prescription(u, pid, id, updates)

UpdateAlert ==
    \E u \in UserIds, id \in 1..(Len(alerts) + 1), payload \in AlertPayloads :
        update_alert(u, id, payload)

StoreFrame == UNCHANGED <<anomaly_vars, risk_vars, rx_vars, sessions>>

Init ==
    /\ AnomalyIdle
    /\ RiskIdle
    /\ RxIdle
    /\ StoreIdle

Next ==
    \/ AddVitals /\ StoreFrame
    \/ UpdatePrescription /\ StoreFrame
    \/ UpdateAlert /\ StoreFrame

Spec == Init /\ [][Next]_vars

\* the doctor acknowledges an alert
AcknowledgeAlert ==
    \E id \in 1..Len(alerts) : update_alert(1, id, [acknowledged |-> "true"])

ListAlerts ==
    \E u \in UserIds, patient_id \in PatientIdParams, severity \in SeverityParams,
       acknowledged \in AcknowledgedParams, limit \in LimitParams, offset \in OffsetParams :
        list_alerts(u, patient_id, severity, acknowledged, limit, offset)

NextList ==
    \/ AddVitals /\ StoreFrame
    \/ UpdatePrescription /\ StoreFrame
    \/ AcknowledgeAlert /\ StoreFrame
    \/ ListAlerts /\ StoreFrame

SpecList == Init /\ [][NextList]_vars

(***************************************************************************)
(* Claims about the alerts table and its two routes.                       *)
(***************************************************************************)
\* the ranking of the severities, critical first
severity_rank(severity) ==
    CASE severity = "critical" -> 4
      [] severity = "urgent" -> 3
      [] severity = "serious" -> 2
      [] severity = "mild" -> 1

\* item a of a returned list may stand before item b: a is of higher
\* severity, or of the same severity and not older
MayPrecede(a, b) ==
    \/ severity_rank(a.severity) > severity_rank(b.severity)
    \/ /\ a.severity = b.severity
       /\ a.generatedAt >= b.generatedAt

\* C6: every list that list_alerts returns is ordered by severity, critical
\* before urgent before serious before mild, whatever the order of creation,
\* and alerts of one severity are ordered most recent first.
C6_ListedBySeverityThenRecency ==
    response.kind = "list_alerts" =>
        \A i, j \in 1..Len(response.items) :
            i < j => MayPrecede(response.items[i], response.items[j])

\* C7: the priority_score of every alert in the table is fixed by its
\* severity alone, and a higher severity has a strictly higher score.
C7_PriorityScoreRanksSeverity ==
    \A i, j \in 1..Len(alerts) :
        /\ alerts[i].severity = alerts[j].severity
              => alerts[i].priority_score = alerts[j].priority_score
        /\ severity_rank(alerts[i].severity) > severity_rank(alerts[j].severity)
              => alerts[i].priority_score > alerts[j].priority_score

\* the columns of an alert that say what it is
Identity(a) ==
    <<a.patient_id, a.generated_at, a.severity, a.type, a.title, a.message,
      a.alert_metadata, a.recommendation, a.priority_score, a.assigned_to>>

Acknowledgement(a) == <<a.acknowledged, a.acknowledged_at, a.acknowledged_by>>

Resolution(a) == <<a.resolved, a.resolved_at>>

\* no step removes a row of alerts or changes what a row is
AlertsAppendOnly ==
    /\ Len(alerts') >= Len(alerts)
    /\ \A i \in 1..Len(alerts) : Identity(alerts'[i]) = Identity(alerts[i])

\* a step that answers PATCH /alerts/{id} changes no row when it refuses, and
\* otherwise no row but the one it returns; if that row's acknowledgement
\* changed the payload had the key "acknowledged", and if its resolution
\* changed the payload had the key "resolved"
UpdateAlertFrame ==
    IF response'.status # 200
    THEN alerts' = alerts
    ELSE LET id == response'.items[1].id
         IN  /\ Len(alerts') = Len(alerts)
             /\ \A i \in 1..Len(alerts) : i # id => alerts'[i] = alerts[i]
             /\ Acknowledgement(alerts'[id]) # Acknowledgement(alerts[id]) =>
                   \A u \in UserIds, payload \in AlertPayloads :
                       "acknowledged" \notin DOMAIN payload => ~update_alert(u, id, payload)
             /\ Resolution(alerts'[id]) # Resolution(alerts[id]) =>
                   \A u \in UserIds, payload \in AlertPayloads :
                       "resolved" \notin DOMAIN payload => ~update_alert(u, id, payload)

\* C8: update_alert changes nothing but the acknowledgement and the
\* resolution state of the one alert, each only when its key is in the
\* payload; severity, type, title, message, patient, metadata and generation
\* time of every alert never change, and no step deletes an alert.
C8_OnlyAcknowledgeAndResolve ==
    [][AlertsAppendOnly /\ (response'.kind = "update_alert" => UpdateAlertFrame)]_vars

\* an acknowledgement with the payload {"acknowledged": true} left alert 1
\* acknowledged and unresolved, and alert 2 as it was created
C8_Witness ==
    /\ response.kind = "update_alert"
    /\ response.status = 200
    /\ Len(alerts) = 2
    /\ alerts[1].acknowledged
    /\ ~alerts[1].resolved
    /\ alerts[1].severity = "critical"
    /\ ~alerts[2].acknowledged
    /\ ~alerts[2].resolved

\* each flag is true exactly when its stamps are set
StampsMatchFlags ==
    \A i \in 1..Len(alerts) :
        /\ alerts[i].acknowledged <=> alerts[i].acknowledged_at # None
        /\ alerts[i].acknowledged <=> alerts[i].acknowledged_by # None
        /\ alerts[i].resolved <=> alerts[i].resolved_at # None

\* who may update alert id (routers/alerts.py:98-106)
MayUpdate(u, id) ==
    role(u) # "patient" \/ alerts[id].patient_id = patient_id_of(u)

\* the row a resolution leaves tells who resolved: two users resolving the
\* same alert leave different rows
ResolverRecorded ==
    \A id \in 1..Len(alerts) : \A u1, u2 \in UserIds :
        (u1 # u2 /\ MayUpdate(u1, id) /\ MayUpdate(u2, id))
            => updated_alert(alerts[id], [resolved |-> "true"], u1, clock)
                   # updated_alert(alerts[id], [resolved |-> "true"], u2, clock)

\* the row a resolution leaves is the same whoever resolved
ResolverNotRecorded ==
    \A id \in 1..Len(alerts) : \A u1, u2 \in UserIds :
        updated_alert(alerts[id], [resolved |-> "true"], u1, clock)
            = updated_alert(alerts[id], [resolved |-> "true"], u2, clock)

\* a step that answers an acknowledging PATCH of user u leaves u as the
\* acknowledger, and a created alert has both flags false and no stamp
AcknowledgerIsLast ==
    /\ (response'.kind = "update_alert" /\ response'.status = 200) =>
          LET id == response'.items[1].id
          IN  \A u \in UserIds \ {alerts'[id].acknowledged_by}, payload \in AlertPayloads :
                  ("acknowledged" \in DOMAIN payload /\ py_bool(payload.acknowledged))
                      => ~update_alert(u, id, payload)
    /\ \A i \in (Len(alerts) + 1)..Len(alerts') :
          /\ Acknowledgement(alerts'[i]) = <<FALSE, None, None>>
          /\ Resolution(alerts'[i]) = <<FALSE, None>>

\* C9 as stated: acknowledged is true exactly when acknowledged_at is set and
\* acknowledged_by is the user who last acknowledged; resolved is true
\* exactly when resolved_at is set and the user who resolved is recorded; a
\* new alert has both flags false and no stamps.
C9_StampsAndActors ==
    /\ [](StampsMatchFlags /\ ResolverRecorded)
    /\ [][AcknowledgerIsLast]_vars

\* C9 as the code has it: acknowledged is true exactly when acknowledged_at
\* is set and acknowledged_by is the user who last acknowledged; resolved is
\* true exactly when resolved_at is set, and no column records who resolved;
\* a new alert has both flags false and no stamps.
C9_StampsAndAcknowledger ==
    /\ [](StampsMatchFlags /\ ResolverNotRecorded)
    /\ [][AcknowledgerIsLast]_vars

\* patient user 2 acknowledged the alert, and the doctor's later resolution
\* stamped its own time and left the acknowledger in place
C9_Witness ==
    /\ response.kind = "update_alert"
    /\ response.status = 200
    /\ \E i \in 1..Len(alerts) :
          /\ alerts[i].acknowledged
          /\ alerts[i].acknowledged_by = 2
          /\ alerts[i].resolved
          /\ alerts[i].resolved_at > alerts[i].acknowledged_at

\* C10: a list that list_alerts returns to a user of role patient holds no
\* alert of a patient other than the one linked to that user, whatever the
\* query parameters; a doctor who passes no filter gets every alert.
C10_PatientsListOwnAlerts ==
    [][response'.kind = "list_alerts" =>
          \A u \in UserIds, patient_id \in PatientIdParams, severity \in SeverityParams,
             acknowledged \in AcknowledgedParams, limit \in LimitParams, offset \in OffsetParams :
              list_alerts(u, patient_id, severity, acknowledged, limit, offset) =>
                  /\ role(u) = "patient" =>
                        \A i \in 1..Len(response'.items) :
                            response'.items[i].patientId = patient_id_of(u)
                  /\ ( /\ role(u) = "doctor"
                       /\ patient_id = None
                       /\ severity = "None"
                       /\ acknowledged = "None"
                       /\ limit = 50
                       /\ offset = 0 )
                        => {response'.items[i].id : i \in 1..Len(response'.items)}
                               = 1..Len(alerts)]_vars

(***************************************************************************)
(* Who may do what: requests of every kind of user, the admin and the      *)
(* patient without a profile included.                                     *)
(***************************************************************************)
AccessAlertPayloads == {[acknowledged |-> "true"], [resolved |-> "true"]}

AccessAddVitals ==
    \E u \in AllUserIds, pid \in RequestedPatientIds, payload \in VitalsPayloads :
        add_vitals(u, pid, payload)

AccessUpdateAlert ==
    \E u \in AllUserIds, id \in 1..(Len(alerts) + 1), payload \in AccessAlertPayloads :
        update_alert(u, id, payload)

NextAccess ==
    \/ AccessAddVitals /\ StoreFrame
    \/ AccessUpdateAlert /\ StoreFrame

SpecAccess == Init /\ [][NextAccess]_vars

\* user u is a patient and alert id is not of a profile linked to u
ForeignAlert(u, id) ==
    /\ role(u) = "patient"
    /\ ~\E pid \in PatientIds : patient_user_id(pid) = u /\ alerts[id].patient_id = pid

\* what PATCH /alerts/{id} of user u must answer
ExpectedUpdateAnswer(u, id) ==
    IF id \notin 1..Len(alerts) THEN [status |-> 404, detail |-> "Alert not found"]
    ELSE IF ForeignAlert(u, id) THEN [status |-> 403, detail |-> "Not allowed"]
    ELSE Ok

\* C11: update_alert of a patient on an alert of another patient, or of a
\* patient without a profile, fails with "Not allowed"; on an unknown id it
\* fails with "Alert not found"; a failed call changes no alert; every other
\* call, those of non-patient users on any alert included, succeeds.
C11_PatientsUpdateOwnAlerts ==
    [][response'.kind = "update_alert" =>
          /\ response'.status # 200 => alerts' = alerts
          /\ \A u \in AllUserIds, id \in 1..(Len(alerts) + 1), payload \in AccessAlertPayloads :
                update_alert(u, id, payload) =>
                    /\ response'.status = ExpectedUpdateAnswer(u, id).status
                    /\ response'.detail = ExpectedUpdateAnswer(u, id).detail]_vars

\* a patient was refused while alerts of both patients exist, unchanged
C11_Witness ==
    /\ response.kind = "update_alert"
    /\ response.status = 403
    /\ response.detail = "Not allowed"
    /\ Len(alerts) = 2
    /\ \A i \in 1..2 : ~alerts[i].acknowledged /\ ~alerts[i].resolved

\* user u is entitled to the data of patient pid
Entitled(u, pid) ==
    /\ pid \in PatientIds
    /\ \/ role(u) = "doctor"
       \/ role(u) = "patient" /\ patient_user_id(pid) = u

\* the access check grants exactly the entitled
AccessGrantedToEntitled ==
    \A u \in AllUserIds, pid \in RequestedPatientIds :
        get_patient_or_doctor_access(pid, u).status = 200 <=> Entitled(u, pid)

\* a refused add_vitals stores nothing, and add_vitals of a user who is not
\* entitled is refused
RefusedAddVitalsStoresNothing ==
    response'.kind = "add_vitals" =>
        /\ response'.status # 200 => vitals' = vitals /\ alerts' = alerts
        /\ \A u \in AllUserIds, pid \in RequestedPatientIds, payload \in VitalsPayloads :
              (~Entitled(u, pid) /\ add_vitals(u, pid, payload)) => response'.status # 200

\* C12: access to a patient's data is granted exactly when the patient
\* exists and the user is a doctor or the patient's own user; everyone else
\* is refused, and a refused add_vitals stores no reading and no alert.
C12_AccessOnlyForDoctorOrOwner ==
    /\ []AccessGrantedToEntitled
    /\ [][RefusedAddVitalsStoresNothing]_vars

\* after a reading with its alert was stored, a request was refused with
\* "Insufficient permissions" and the tables are as they were
C12_Witness ==
    /\ response.kind = "add_vitals"
    /\ response.status = 403
    /\ response.detail = "Insufficient permissions"
    /\ Len(vitals) = 1
    /\ Len(alerts) = 1

(***************************************************************************)
(* Further claims about the anomaly engine.                                *)
(***************************************************************************)
\* C13: for every new reading and every window, of length 0, 1 and 2 too,
\* check_vitals_anomalies returns the findings of the emergency pass followed
\* by the findings of the statistical pass, and the emergency part is the
\* same for every window.
C13_EmergencyThenStatistical ==
    /\ anomaly_pc # "raised"
    /\ anomaly_pc = "done" =>
          LET emergency == _check_emergency_thresholds(new_vital)
          IN  /\ anomaly_alerts =
                     emergency \o _check_statistical_anomalies(new_vital, historical_vitals)
              /\ \A hist \in SeqsUpTo(HistoricalInputs, 2) :
                     SubSeq(check_vitals_anomalies(new_vital, hist), 1, Len(emergency))
                         = SubSeq(anomaly_alerts, 1, Len(emergency))

\* a call on a window of 3 readings where both passes found something
C13_Witness ==
    /\ anomaly_pc = "done"
    /\ Len(historical_vitals) = 3
    /\ _check_emergency_thresholds(new_vital) # <<>>
    /\ _check_statistical_anomalies(new_vital, historical_vitals) # <<>>
    /\ Len(anomaly_alerts) > Len(_check_emergency_thresholds(new_vital))

\* a call on a window of 2 readings returned the emergency findings alone
C13_ShortWindowReached ==
    /\ anomaly_pc = "done"
    /\ Len(historical_vitals) = 2
    /\ anomaly_alerts # <<>>

(***************************************************************************)
(* Claims about the alerts that add_vitals creates.                        *)
(***************************************************************************)
\* the rows of alerts that add_vitals created: update_prescription is the
\* only other creator and the only one of type drug_interaction
IngestionAlerts == {i \in 1..Len(alerts) : alerts[i].type # "drug_interaction"}

\* C14 as stated: every alert that add_vitals creates from its thresholds is
\* serious, urgent or critical, never mild.
C14_IngestionNeverMild ==
    \A i \in IngestionAlerts : alerts[i].severity \in {"serious", "urgent", "critical"}

\* C14 as the code has it: the alerts of the blood pressure, heart rate,
\* blood glucose and oxygen thresholds are serious, urgent or critical, and
\* the alert of the temperature threshold, "Fever Detected", is mild.
C14_OnlyFeverIsMild ==
    \A i \in IngestionAlerts :
        IF alerts[i].title = "Fever Detected"
        THEN alerts[i].severity = "mild"
        ELSE alerts[i].severity \in {"serious", "urgent", "critical"}

\* a reading of 101.3 degrees Fahrenheit left a mild fever alert
C14_Witness ==
    \E i \in IngestionAlerts :
        /\ alerts[i].title = "Fever Detected"
        /\ alerts[i].severity = "mild"
        /\ Len(vitals) = 1
        /\ vitals[1].temperature = 3850

(***************************************************************************)
(* POST /{patient_id}/prescriptions.  A text is the sequence of its lines  *)
(* (str.splitlines), each line a string as above.                          *)
(***************************************************************************)
\* routers/prescriptions.py:22
nonblank_lines(text) ==
    LET stripped == [i \in 1..Len(text) |-> strip(text[i])]
        nonblank(ln) == ln # EmptyStr
    IN  SelectSeq(stripped, nonblank)

\* routers/prescriptions.py:26
header_line(ln) ==
    \/ \E p \in {"1.", "2.", "3.", "4.", "5."} : StartsWith(lower(ln), p)
    \/ \E p \in {"tab", "cap", "syr", "inj"} : StartsWith(lower(ln), p)
    \/ Contains(lower(ln), "tablet")

\* routers/prescriptions.py:35, 37, 39, the tests after  current and
dose_line(ln) == \E kw \in {"mg", "ml", "strength"} : Contains(lower(ln), kw)

frequency_line(ln) ==
    \E kw \in {"once", "twice", "three", "every", "times a day", "sos"} : Contains(lower(ln), kw)

instruction_line(ln) ==
    \E kw \in {"gargle", "with", "after meals", "as needed"} : Contains(lower(ln), kw)

\* routers/prescriptions.py:30-33: the numbering is stripped from the left,
\* then "Tab.", "Cap." and "Syr." are removed as they are spelt there
header_name(ln) ==
    CASE ln.base = "tab. aspirin" -> IF ln.caps THEN Str("aspirin", TRUE, FALSE) ELSE ln
      [] ln.base = "2. warfarin" -> Str("warfarin", ln.caps, FALSE)
      [] ln.base = "3. amoxicillin" -> Str("amoxicillin", ln.caps, FALSE)
      [] ln.base = "1 tablet twice daily" -> Str("tablet twice daily", ln.caps, FALSE)
      [] OTHER -> ln

\* routers/prescriptions.py:34; instructions holds the lines that line 42
\* joins with blanks
new_medication(ln) ==
    [has_name |-> TRUE, name |-> header_name(ln), dose |-> EmptyStr,
     frequency |-> EmptyStr, instructions |-> <<>>]

\* line 36 keeping the dose the medication already has
attach_first_dose(current, ln) ==
    IF current.dose = EmptyStr THEN [current EXCEPT !.dose = ln] ELSE current

\* routers/prescriptions.py:36
attach_dose(current, ln) == [current EXCEPT !.dose = ln]

\* routers/prescriptions.py:24-49; current is <<>> for None
RECURSIVE parse_lines(_, _, _)
parse_lines(lines, ms, current) ==
    IF lines = <<>>
    THEN ms \o current
    ELSE LET ln == Head(lines)
         IN  IF header_line(ln)
             THEN parse_lines(Tail(lines), ms \o current, <<new_medication(ln)>>)
             ELSE IF current # <<>> /\ dose_line(ln)
             THEN parse_lines(Tail(lines), ms, <<attach_dose(current[1], ln)>>)
             ELSE IF current # <<>> /\ frequency_line(ln)
             THEN parse_lines(Tail(lines), ms, <<[current[1] EXCEPT !.frequency = ln]>>)
             ELSE IF current # <<>> /\ instruction_line(ln)
             THEN parse_lines(Tail(lines), ms,
                              <<[current[1] EXCEPT !.instructions = Append(@, ln)]>>)
             ELSE parse_lines(Tail(lines), ms, current)

\* routers/prescriptions.py:15-57, with the cleanup pass of lines 51-56 (a
\* medication without instructions has the empty sequence: the key is popped)
_parse_free_text_prescription(text) ==
    LET ms == parse_lines(nonblank_lines(text), <<>>, <<>>)
    IN  [i \in 1..Len(ms) |->
            [ms[i] EXCEPT !.name = strip(@), !.dose = strip(@), !.frequency = strip(@)]]

\* routers/prescriptions.py:106-107:  not ocr_text  once the text is stripped
ocr_text_missing(text) == nonblank_lines(text) = <<>>

\* an analysis whose lookups never fail
analysis_never_raises(rows, ms, kb_available) == FALSE

\* prescription_analyzer.py:28-29: db.execute raises when the knowledge base
\* cannot be reached and scalar_one_or_none raises on several rows; both
\* happen only if the double loop has a pair to look up, and nothing between
\* there and the handler catches them
analysis_raises(rows, ms, kb_available) ==
    \/ ~kb_available /\ PairsFrom(1, 2, Len(unique_names(interaction_names(ms)))) # <<>>
    \/ check_interactions_raises(rows, ms)

\* routers/prescriptions.py:97-141.  meds and analysis are the request's own:
\* the parsed medications and what analyze_prescription returned, nothing
\* when the request ended before the analysis.
create_prescription(u, patient_id, text, kb_available) ==
    LET access == get_patient_or_doctor_access(patient_id, u)
        parsed == _parse_free_text_prescription(text)
        result == analyze_prescription(drug_interactions, parsed)
    IN  IF access.status # 200
        THEN /\ response' = Failure("create_prescription", access)
             /\ meds' = <<>>
             /\ analysis' = [status |-> "none"]
             /\ ocr_text' = <<>>
             /\ UNCHANGED <<alerts, vitals, prescriptions, clock, drug_interactions, rx_pc>>
        ELSE IF ocr_text_missing(text)
        THEN /\ response' = Failure("create_prescription",
                                    [status |-> 422, detail |-> "ocrText is required"])
             /\ meds' = <<>>
             /\ analysis' = [status |-> "none"]
             /\ ocr_text' = <<>>
             /\ UNCHANGED <<alerts, vitals, prescriptions, clock, drug_interactions, rx_pc>>
        ELSE IF analysis_raises(drug_interactions, parsed, kb_available)
        THEN /\ meds' = parsed
             /\ analysis' = [status |-> "raised"]
             /\ ocr_text' = text
             /\ response' = Failure("create_prescription",
                                    [status |-> 500, detail |-> "Internal Server Error"])
             /\ UNCHANGED <<alerts, vitals, prescriptions, clock, drug_interactions, rx_pc>>
        ELSE /\ Len(prescriptions) < MaxPrescriptions
             /\ meds' = parsed
             /\ analysis' = result
             /\ ocr_text' = text
             /\ prescriptions' = Append(prescriptions,
                    [patient_id |-> patient_id, parsed_medications |-> parsed,
                     flags |-> result.flags])
             /\ clock' = clock + 1
             /\ response' = Success("create_prescription",
                    <<[id |-> Len(prescriptions) + 1, patientId |-> patient_id,
                       parsedMedications |-> parsed, flags |-> result.flags,
                       analysis |-> [summary |-> result.summary,
                                     interactions |-> result.interactions,
                                     findings |-> result.findings]]>>)
             /\ UNCHANGED <<alerts, vitals, drug_interactions, rx_pc>>

\* the lines of one medication as a prescription lists it
BlockInputs ==
    {<<Str("tab. aspirin", TRUE, FALSE), Str("500 mg", FALSE, TRUE)>>,
     <<Str("2. warfarin", FALSE, TRUE), Str("twice daily", TRUE, FALSE)>>,
     <<Str("3. amoxicillin", FALSE, FALSE)>>}

RECURSIVE Flatten(_)
Flatten(ss) == IF ss = <<>> THEN <<>> ELSE Head(ss) \o Flatten(Tail(ss))

\* a text of blanks only, and the texts that open with a note and list up to
\* MaxBlocks medications
OcrTexts ==
    {<<Str("", FALSE, TRUE)>>}
        \cup {<<Str("refill x2", FALSE, FALSE)>> \o Flatten(blocks) :
                blocks \in SeqsUpTo(BlockInputs, MaxBlocks)}

InitCreate ==
    /\ AnomalyIdle
    /\ RiskIdle
    /\ StoreIdle
    /\ meds = <<>>
    /\ drug_interactions \in {rows \in SUBSET RowInputs : Cardinality(rows) <= MaxRows}
    /\ analysis = [status |-> "none"]
    /\ rx_pc = "idle"
    /\ ocr_text = <<>>

CreatePrescription ==
    /\ \E u \in UserIds, pid \in RequestedPatientIds, text \in OcrTexts, kb_available \in BOOLEAN :
           create_prescription(u, pid, text, kb_available)
    /\ UNCHANGED <<anomaly_vars, risk_vars, sessions>>

NextCreate == CreatePrescription

SpecCreate == InitCreate /\ [][NextCreate]_vars

\* a lookup of the analysis of meds fails: the knowledge base is down or
\* holds several rows for a pair, and two different drugs are named
LookupFails(ms, kb_available) ==
    LET names == {lower(strip(ms[i].name)) : i \in {k \in 1..Len(ms) : ms[k].name # EmptyStr}}
    IN  \E a, b \in names :
            /\ a # b
            /\ \/ ~kb_available
               \/ Cardinality({r \in drug_interactions :
                                  {lower(r.drug_a), lower(r.drug_b)} = {a, b}}) > 1

\* C15: when a lookup of the knowledge base fails during the analysis, the
\* analysis as a whole fails: a successful answer is never the answer to a
\* request one of whose lookups failed, a failed analysis is answered with an
\* error, and an error carries no summary, interaction, finding or flag and
\* stores no prescription.
C15_FailedLookupFailsAnalysis ==
    [][response'.kind = "create_prescription" =>
          /\ response'.status = 200 =>
                \A text \in OcrTexts, kb_available \in BOOLEAN :
                    ( /\ _parse_free_text_prescription(text) = meds'
                      /\ LookupFails(meds', kb_available) )
                        => \A u \in UserIds, pid \in RequestedPatientIds :
                               ~create_prescription(u, pid, text, kb_available)
          /\ analysis'.status = "raised" => response'.status = 500
          /\ response'.status # 200 =>
                /\ response'.items = <<>>
                /\ prescriptions' = prescriptions]_vars

\* the analysis of two named drugs failed and only the seeded prescription
\* is stored
C15_Witness ==
    /\ response.kind = "create_prescription"
    /\ response.status = 500
    /\ analysis.status = "raised"
    /\ Len(meds) = 2
    /\ Len(prescriptions) = 1

(***************************************************************************)
(* The hypertension score (risk_service.py:12-84).  With n valid readings  *)
(* of sums ss and ds the averages are ss/n and ds/n, and the scores are    *)
(* kept exact as numerators over 10n: (avg - 120) * 1.2 is                 *)
(* 12 (ss - 120 n) / 10n and (avg - 80) * 1.5 is 15 (ds - 80 n) / 10n.     *)
(***************************************************************************)
\* risk_service.py:24-28
bp_readings(vl) ==
    SelectSeq([i \in 1..Len(vl) |-> <<vl[i].systolic, vl[i].diastolic>>],
              LAMBDA bp : Truthy(bp[1]) /\ Truthy(bp[2]))

\* risk_service.py:46-47, max(0, (avg - base) * factor) for the mean avg of n
\* ints of sum sm: statistics.mean gives the float nearest to sm/n (the int
\* itself when n divides sm), the difference and the product are float
\* operations, and a difference that is not positive gives 0
pressure_score(sm, n, base, factor) ==
    IF sm <= base * n THEN FloatZero
    ELSE FloatMul(FloatAbsSub(FloatDiv(FloatOf(sm), FloatOf(n)), FloatOf(base)), factor)

\* risk_service.py:46-47: the literals 1.2 and 1.5 are the floats nearest to
\* 12/10 and 3/2
systolic_factor == FloatDiv(FloatOf(12), FloatOf(10))

diastolic_factor == FloatDiv(FloatOf(3), FloatOf(2))

\* risk_service.py:51-58 and 152-157: the ints a score is compared with
hypertension_bands == [b \in {20, 50, 75, 80, 100} |-> FloatOf(b)]

\* risk_service.py:46-51
HypertensionScore(ss, ds, n) ==
    LET systolic_score == pressure_score(ss, n, 120, systolic_factor)
        diastolic_score == pressure_score(ds, n, 80, diastolic_factor)
        raw_score == FloatAdd(systolic_score, diastolic_score)
    IN  IF FloatGt(raw_score, hypertension_bands[100]) THEN hypertension_bands[100]
        ELSE raw_score

\* risk_service.py:53-61
HypertensionRiskLevel(score) ==
    IF FloatGt(hypertension_bands[20], score) THEN "low"
    ELSE IF FloatGt(hypertension_bands[50], score) THEN "moderate"
    ELSE IF FloatGt(hypertension_bands[80], score) THEN "high"
    ELSE "critical"

\* risk_service.py:148-161
_get_hypertension_recommendations(score) ==
    (IF FloatGt(score, hypertension_bands[50])
     THEN <<"Monitor blood pressure daily", "Reduce sodium intake",
            "Increase physical activity">>
     ELSE <<>>)
    \o (IF FloatGt(score, hypertension_bands[75])
        THEN <<"Consult healthcare provider immediately", "Consider medication review">>
        ELSE <<>>)

\* a calculator that reports a result of full confidence when it has no data
calculate_hypertension_risk_confident(vl) ==
    [called |-> TRUE, score |-> 0, risk_level |-> "low",
     drivers |-> [key |-> "avg_systolic", value |-> "computed",
                  high_systolic |-> FALSE, high_diastolic |-> FALSE, readings_count |-> 0],
     confidence |-> 100, recommendations |-> <<>>]

\* risk_service.py:12-84; the score is in hundredths
calculate_hypertension_risk(vl) ==
    LET readings == bp_readings(vl)
        n == Len(readings)
        ss == SumSeq([i \in 1..n |-> readings[i][1]])
        ds == SumSeq([i \in 1..n |-> readings[i][2]])
        score == HypertensionScore(ss, ds, n)
    IN  IF vl = <<>>
        THEN [called |-> TRUE, score |-> 0, risk_level |-> "low",
              drivers |-> [key |-> "data_availability", value |-> "insufficient",
                           high_systolic |-> FALSE, high_diastolic |-> FALSE,
                           readings_count |-> 0],
              confidence |-> 0, recommendations |-> <<>>]
        ELSE IF readings = <<>>
        THEN [called |-> TRUE, score |-> 0, risk_level |-> "low",
              drivers |-> [key |-> "blood_pressure", value |-> "no_data",
                           high_systolic |-> FALSE, high_diastolic |-> FALSE,
                           readings_count |-> 0],
              confidence |-> 0, recommendations |-> <<>>]
        ELSE [called |-> TRUE, score |-> FloatRoundHundredths(score),
              risk_level |-> HypertensionRiskLevel(score),
              drivers |-> [key |-> "avg_systolic", value |-> "computed",
                           high_systolic |-> ss > 140 * n, high_diastolic |-> ds > 90 * n,
                           readings_count |-> n],
              confidence |-> Min(100, n * 20),
              recommendations |-> _get_hypertension_recommendations(score)]

\* readings that differ in blood pressure and glucose: nothing measured, one
\* of the two pressures missing or 0, and very high values
PressureInputs ==
    {<<None, None, None>>, <<120, None, None>>, <<0, 80, None>>, <<None, 85, 90>>,
     <<200, 120, 210>>}

PressureReadings ==
    {Vitals(p[1], p[2], None, None, p[3], None) : p \in PressureInputs}

InitPressure ==
    /\ AnomalyIdle
    /\ RxIdle
    /\ StoreIdle
    /\ vitals_list \in SeqsUpTo(PressureReadings, MaxWindow)
    /\ risk_result = [called |-> FALSE]
    /\ risk_pc = "call"

CalculateHypertensionRisk ==
    /\ risk_pc = "call"
    /\ risk_result' = calculate_hypertension_risk(vitals_list)
    /\ risk_pc' = "hypertension"
    /\ UNCHANGED <<vitals_list, anomaly_vars, rx_vars, store_vars>>

NextPressure ==
    \/ CalculateHypertensionRisk
    \/ CalculateDiabetesRisk

SpecPressure == InitPressure /\ [][NextPressure]_vars

\* C16: on a window without a reading that has both pressures the
\* hypertension result, and on a window without a glucose value the diabetes
\* result, the empty window included, is score 0, level "low" and confidence
\* 0 with a driver that marks the missing data; neither call raises.
C16_NoDataIsAZeroResult ==
    /\ risk_pc = "hypertension" =>
          /\ risk_result.called
          /\ (\A i \in 1..Len(vitals_list) :
                  vitals_list[i].systolic = None \/ vitals_list[i].diastolic = None)
                => /\ risk_result.score = 0
                   /\ risk_result.risk_level = "low"
                   /\ risk_result.confidence = 0
                   /\ risk_result.drivers.value \in {"insufficient", "no_data"}
    /\ risk_pc = "raised" =>
          \E i \in 1..Len(vitals_list) : vitals_list[i].blood_glucose # None
    /\ risk_pc = "done" =>
          /\ risk_result.called
          /\ (\A i \in 1..Len(vitals_list) : vitals_list[i].blood_glucose = None)
                => /\ risk_result.score = 0
                   /\ risk_result.risk_level = "low"
                   /\ risk_result.confidence = 0
                   /\ risk_result.drivers = "no_data"

\* the hypertension score of a window of two readings, each lacking one of
\* the two pressures
C16_Witness ==
    /\ risk_pc = "hypertension"
    /\ Len(vitals_list) = 2
    /\ vitals_list[1].systolic = 120 /\ vitals_list[1].diastolic = None
    /\ vitals_list[2].systolic = None /\ vitals_list[2].diastolic = 85
    /\ risk_result.score = 0
    /\ risk_result.confidence = 0
    /\ risk_result.drivers.value = "no_data"

(***************************************************************************)
(* add_vitals as the steps of its database session.  Every await of the    *)
(* handler is a point where another request runs or the step fails.        *)
(***************************************************************************)

\* database.py:45-47: an exception leaving the handler rolls the session
\* back; what was flushed and not committed is discarded
rollback_keeping_reading(pending) == pending

rollback(pending) == <<>>

\* routers/vitals.py:58-68: the access check, the first await
begin_add_vitals(r, u, patient_id, payload) ==
    LET access == get_patient_or_doctor_access(patient_id, u)
    IN  /\ sessions[r].pc = "idle"
        /\ IF access.status # 200
           THEN /\ response' = Failure("add_vitals", access)
                /\ sessions' = [sessions EXCEPT ![r].pc = "closed"]
           ELSE /\ sessions' = [sessions EXCEPT ![r] =
                       [pc |-> "checked", patient_id |-> patient_id,
                        payload |-> payload, pending_vitals |-> <<>>]]
                /\ UNCHANGED response
        /\ UNCHANGED <<alerts, vitals, prescriptions, clock>>

\* routers/vitals.py:70-105: db.add(v) and flush; the row is inserted inside
\* the open transaction and no other session sees it
flush_vitals(r) ==
    LET s == sessions[r]
    IN  /\ s.pc = "checked"
        /\ sessions' = [sessions EXCEPT ![r].pc = "flushed",
               ![r].pending_vitals = <<vitals_row(s.patient_id, s.payload, clock + 1)>>]
        /\ UNCHANGED <<alerts, vitals, prescriptions, clock, response>>

\* routers/vitals.py:107-208: the ladders run without an await, add_all puts
\* the alerts in the same session, commit writes the reading and the alerts
commit_vitals(r) ==
    LET s == sessions[r]
        now == clock + 1
    IN  /\ s.pc = "flushed"
        /\ vitals' = vitals \o s.pending_vitals
        /\ alerts' = alerts \o alerts_to_create(s.patient_id, s.payload, now)
        /\ clock' = now
        /\ sessions' = [sessions EXCEPT ![r].pc = "committed"]
        /\ UNCHANGED <<prescriptions, response>>

\* routers/vitals.py:209-210: refresh and the response
return_vitals(r) ==
    LET s == sessions[r]
    IN  /\ s.pc = "committed"
        /\ response' = Success("add_vitals", s.pending_vitals)
        /\ sessions' = [sessions EXCEPT ![r].pc = "closed", ![r].pending_vitals = <<>>]
        /\ UNCHANGED <<alerts, vitals, prescriptions, clock>>

\* database.py:45-48: a step of the handler raises (the flush, the commit or
\* the refresh); the session is rolled back and closed, the request answers
\* with an error
fail_add_vitals(r) ==
    LET s == sessions[r]
    IN  /\ s.pc \in {"checked", "flushed", "committed"}
        /\ vitals' = vitals \o (IF s.pc = "flushed" THEN rollback(s.pending_vitals) ELSE <<>>)
        /\ response' = Failure("add_vitals", [status |-> 500, detail |-> "Internal Server Error"])
        /\ sessions' = [sessions EXCEPT ![r].pc = "closed", ![r].pending_vitals = <<>>]
        /\ UNCHANGED <<alerts, prescriptions, clock>>

SessionIds == 1..MaxSessions

TxnPayloads ==
    {VitalsPayload(120, 80, 70, 3700, 100, 98, None),
     VitalsPayload(185, 125, None, None, None, None, None),
     VitalsPayload(None, None, 135, None, None, 90, None)}

TxnFrame == UNCHANGED <<anomaly_vars, risk_vars, rx_vars>>

BeginAddVitals ==
    /\ \E r \in SessionIds, u \in UserIds, pid \in PatientIds, payload \in TxnPayloads :
           begin_add_vitals(r, u, pid, payload)
    /\ TxnFrame

FlushVitals == (\E r \in SessionIds : flush_vitals(r)) /\ TxnFrame

CommitVitals == (\E r \in SessionIds : commit_vitals(r)) /\ TxnFrame

ReturnVitals == (\E r \in SessionIds : return_vitals(r)) /\ TxnFrame

FailAddVitals == (\E r \in SessionIds : fail_add_vitals(r)) /\ TxnFrame

NextTxn ==
    \/ BeginAddVitals
    \/ FlushVitals
    \/ CommitVitals
    \/ ReturnVitals
    \/ FailAddVitals
    \/ (AcknowledgeAlert /\ StoreFrame)

SpecTxn == Init /\ [][NextTxn]_vars

\* the alerts the thresholds call for on a stored reading
CalledFor(row) ==
    alerts_to_create(row.patient_id,
        VitalsPayload(row.systolic, row.diastolic, row.heart_rate, row.temperature,
                      row.blood_glucose, row.oxygen_saturation, row.weight),
        row.recorded_at)

StoredTitles == {alerts[j].title : j \in 1..Len(alerts)}

CalledTitles ==
    UNION {{CalledFor(vitals[i])[k].title : k \in 1..Len(CalledFor(vitals[i]))} :
               i \in 1..Len(vitals)}

ReadingsCalling(pid, title) ==
    Cardinality({i \in 1..Len(vitals) :
        /\ vitals[i].patient_id = pid
        /\ \E k \in 1..Len(CalledFor(vitals[i])) : CalledFor(vitals[i])[k].title = title})

AlertsTitled(pid, title) ==
    Cardinality({j \in 1..Len(alerts) :
        alerts[j].patient_id = pid /\ alerts[j].title = title})

\* C17: in every committed state of the store a reading is present exactly
\* together with every alert its thresholds call for: for each patient and
\* each threshold alert there are as many alerts as stored readings calling
\* for it, whatever step failed and whatever ran in between.
C17_ReadingAndAlertsCommitTogether ==
    \A pid \in PatientIds, title \in StoredTitles \cup CalledTitles :
        AlertsTitled(pid, title) = ReadingsCalling(pid, title)

\* two requests passed the access check and are over: one committed its
\* reading with its two alerts, the other failed on the way
C17_Witness ==
    /\ \A r \in SessionIds : sessions[r].pc = "closed" /\ sessions[r].patient_id # None
    /\ Len(vitals) = 1
    /\ Len(alerts) = 2
    /\ response.status = 500

(***************************************************************************)
(* The emergency pass at the boundaries of the heart rate and of the       *)
(* oxygen saturation thresholds.                                           *)
(***************************************************************************)
BoundaryHeartRates == {None, 0, 49, 50, 120, 121}

BoundaryOxygenSaturations == {None, 0, 89, 90, 94, 95}

BoundaryVitals ==
    {Vitals(None, None, hr, None, None, o2) :
        hr \in BoundaryHeartRates, o2 \in BoundaryOxygenSaturations}

InitThreshold ==
    /\ RiskIdle
    /\ RxIdle
    /\ StoreIdle
    /\ new_vital \in BoundaryVitals
    /\ historical_vitals \in SeqsUpTo(HistoricalInputs, 1)
    /\ anomaly_alerts = <<>>
    /\ anomaly_pc = "call"

SpecThreshold == InitThreshold /\ [][NextAnomaly]_vars

EmergencyFindingsFor(findings, vital_type) ==
    SelectSeq(findings, LAMBDA f : f.type = "vital_emergency" /\ f.vital_type = vital_type)

\* C18: a reading with a heart rate gets exactly one serious heart-rate
\* finding, "Tachycardia Detected" above 120 and "Bradycardia Detected" below
\* 50 (0 included), and none from 50 to 120; a reading without a heart rate
\* gets none, and the call does not raise.
C18_HeartRateFindings ==
    /\ anomaly_pc # "raised"
    /\ anomaly_pc = "done" =>
        LET hr == new_vital.heart_rate
            found == EmergencyFindingsFor(anomaly_alerts, "heart_rate")
        IN  IF hr = None THEN found = <<>>
            ELSE IF hr > 120
            THEN Len(found) = 1 /\ found[1].severity = "serious"
                 /\ found[1].title = "Tachycardia Detected"
            ELSE IF hr < 50
            THEN Len(found) = 1 /\ found[1].severity = "serious"
                 /\ found[1].title = "Bradycardia Detected"
            ELSE found = <<>>

\* C19: a reading with an oxygen saturation gets exactly one oxygen finding
\* below 95, urgent below 90 (0 included) and serious "Reduced Oxygen
\* Saturation" from 90 up to 95, and none from 95 on.
C19_OxygenFindings ==
    anomaly_pc = "done" =>
        LET o2 == new_vital.oxygen_saturation
            found == EmergencyFindingsFor(anomaly_alerts, "oxygen_saturation")
        IN  IF o2 = None THEN found = <<>>
            ELSE IF o2 < 90
            THEN Len(found) = 1 /\ found[1].severity = "urgent"
            ELSE IF o2 < 95
            THEN Len(found) = 1 /\ found[1].severity = "serious"
                 /\ found[1].title = "Reduced Oxygen Saturation"
            ELSE found = <<>>

(***************************************************************************)
(* The statistical pass around a deviation of 20 percent.                  *)
(***************************************************************************)
\* heart rates 20 percent above the means 185/3 and 100, 21 percent above
\* and 20 percent below 100; temperatures at and 20 percent above 37.00
DeviationVitals ==
    {Vitals(None, None, hr, t, None, None) :
        hr \in {None, 74, 80, 120, 121}, t \in {None, 3700, 4440}}

DeviationHistory ==
    {Vitals(None, None, 62, 3700, None, None),
     Vitals(None, None, 61, 3700, None, None),
     Vitals(None, None, 100, None, None, None),
     Vitals(None, None, 0, 0, None, None)}

InitDeviation ==
    /\ RiskIdle
    /\ RxIdle
    /\ StoreIdle
    /\ new_vital \in DeviationVitals
    /\ historical_vitals \in SeqsUpTo(DeviationHistory, MaxHistory)
    /\ anomaly_alerts = <<>>
    /\ anomaly_pc = "call"

SpecDeviation == InitDeviation /\ [][NextAnomaly]_vars

\* the windows that hold the readings of hist in another order
WindowPermutations(hist) ==
    {[i \in 1..Len(hist) |-> hist[p[i]]] :
        p \in {q \in [1..Len(hist) -> 1..Len(hist)] :
                  \A i, j \in 1..Len(hist) : q[i] = q[j] => i = j}}

\* what the claim asks of one field with a value and three historical values
ExpectedAnomaly(vital_attr) ==
    LET current_value == new_vital[vital_attr]
        values == historical_values(vital_attr, historical_vitals)
        n == Len(values)
        sm == SumSeq(values)
        found == StatisticalFindingsFor(anomaly_alerts, vital_attr)
    IN  IF sm > 0 /\ Abs(current_value * n - sm) * 100 > anomaly_threshold_percentage * sm
        THEN /\ Len(found) = 1
             /\ found[1].severity = "mild"
             /\ found[1].direction = IF current_value * n > sm THEN "increased" ELSE "decreased"
        ELSE found = <<>>

\* C20: a field with a value and at least 3 historical values gets exactly
\* one mild anomaly finding if and only if the historical mean is positive
\* and |current - mean| / mean is strictly greater than 20 percent, with the
\* direction "increased" above the mean and "decreased" below; a deviation of
\* exactly 20 percent and a mean of 0 give nothing, and every permutation of
\* the window gives the same result.
C20_AnomalyIffAboveThreshold ==
    anomaly_pc = "done" =>
        /\ \A i \in 1..Len(vital_checks) :
               (/\ new_vital[vital_checks[i]] # None
                /\ Len(historical_values(vital_checks[i], historical_vitals)) >= 3)
                   => ExpectedAnomaly(vital_checks[i])
        /\ \A hist \in WindowPermutations(historical_vitals) :
               check_vitals_anomalies(new_vital, hist) = anomaly_alerts

(***************************************************************************)
(* The risk scores at the edges of their bands.                            *)
(***************************************************************************)
\* pressures whose mean over three readings is 20 points of score (136, 137,
\* 137 with diastolic 80), a crisis far above 100 points, a systolic of 0;
\* glucose below 100, in the diabetes range and above 200
ScoreInputs ==
    {<<136, 80, 60>>, <<137, 80, 150>>, <<200, 125, 210>>, <<0, 80, None>>}

ScoreReadings ==
    {Vitals(p[1], p[2], None, None, p[3], None) : p \in ScoreInputs}

InitScore ==
    /\ AnomalyIdle
    /\ RxIdle
    /\ StoreIdle
    /\ vitals_list \in SeqsUpTo(ScoreReadings, MaxWindow)
    /\ risk_result = [called |-> FALSE]
    /\ risk_pc = "call"

SpecScore == InitScore /\ [][NextPressure]_vars

\* the readings of the window that have both pressures
PressurePairs ==
    SelectSeq([i \in 1..Len(vitals_list) |->
                  <<vitals_list[i].systolic, vitals_list[i].diastolic>>],
              LAMBDA bp : bp[1] # None /\ bp[2] # None)

\* min(100, max(0, (mean_systolic - 120) * 1.2) + max(0, (mean_diastolic - 80) * 1.5))
\* of n pairs with the sums ss and ds, as a numerator over 10 n
ExactHypertensionScore(ss, ds, n) ==
    Min(1000 * n, Max(0, 12 * (ss - 120 * n)) + Max(0, 15 * (ds - 80 * n)))

\* C21: on a window with at least one reading that has both pressures the
\* returned score is min(100, max(0, (mean_systolic - 120) * 1.2) +
\* max(0, (mean_diastolic - 80) * 1.5)) to two decimals and lies in [0, 100];
\* the level is low below 20, moderate from 20 below 50, high from 50 below
\* 80 and critical from 80 on; the confidence is min(100, 20 * readings).
C21_HypertensionScoreAndBands ==
    (risk_pc = "hypertension" /\ PressurePairs # <<>>) =>
        LET n == Len(PressurePairs)
            ss == SumSeq([i \in 1..n |-> PressurePairs[i][1]])
            ds == SumSeq([i \in 1..n |-> PressurePairs[i][2]])
            num == ExactHypertensionScore(ss, ds, n)
        IN  /\ 2 * Abs(risk_result.score * n - 10 * num) <= n
            /\ risk_result.score >= 0 /\ risk_result.score <= 10000
            /\ risk_result.risk_level =
                  (IF num < 200 * n THEN "low"
                   ELSE IF num < 500 * n THEN "moderate"
                   ELSE IF num < 800 * n THEN "high"
                   ELSE "critical")
            /\ risk_result.confidence = Min(100, 20 * n)

\* the score of the spec for n glucose readings of sum sm, as a numerator
\* over 2 n: 0 below a mean of 100, 30 + (mean - 100) * 1.5 below 126,
\* 70 + min(30, (mean - 126) * 0.5) from 126 on, at least 80 when a reading
\* exceeds 200
ExactDiabetesScore(sm, n, max_glucose) ==
    LET base == IF sm < 100 * n THEN 0
                ELSE IF sm < 126 * n THEN 60 * n + 3 * (sm - 100 * n)
                ELSE 140 * n + Min(60 * n, sm - 126 * n)
        forced == IF max_glucose > 200 THEN Max(base, 160 * n) ELSE base
    IN  Min(200 * n, Max(0, forced))

\* C22: on a window with at least one glucose reading the call returns the
\* score 0 below a mean of 100, 30 + (mean - 100) * 1.5 from 100 below 126
\* and 70 + min(30, (mean - 126) * 0.5) from 126 on, raised to 80 when a
\* reading exceeds 200, in [0, 100]; the level is low below 25, moderate
\* below 50, high below 75 and critical from 75 on; the confidence is
\* min(100, 25 * readings).
C22_DiabetesScoreAndBands ==
    (risk_pc \in {"done", "raised"} /\ glucose_readings(vitals_list) # <<>>) =>
        LET readings == glucose_readings(vitals_list)
            n == Len(readings)
            num == ExactDiabetesScore(SumSeq(readings), n, MaxSeq(readings))
        IN  /\ risk_pc = "done"
            /\ 2 * Abs(risk_result.score * n - 50 * num) <= n
            /\ risk_result.score >= 0 /\ risk_result.score <= 10000
            /\ risk_result.risk_level =
                  (IF num < 50 * n THEN "low"
                   ELSE IF num < 100 * n THEN "moderate"
                   ELSE IF num < 150 * n THEN "high"
                   ELSE "critical")
            /\ risk_result.confidence = Min(100, 25 * n)

\* the band of a returned score, given in hundredths
BandOf(score, moderate, high, critical) ==
    IF score < moderate * 100 THEN "low"
    ELSE IF score < high * 100 THEN "moderate"
    ELSE IF score < critical * 100 THEN "high"
    ELSE "critical"

\* C30: in every result the risk level is the band of the returned score:
\* low, moderate, high and critical begin at 0, 20, 50 and 80 for
\* hypertension and at 0, 25, 50 and 75 for diabetes.
C30_LevelIsBandOfReturnedScore ==
    /\ risk_pc = "hypertension" =>
          risk_result.risk_level = BandOf(risk_result.score, 20, 50, 80)
    /\ risk_pc = "done" =>
          risk_result.risk_level = BandOf(risk_result.score, 25, 50, 75)

(***************************************************************************)
(* Claims about the lookups of check_interactions (SpecRx).                *)
(***************************************************************************)
\* the lookups made for the two lower-case names x and y
QueriesFor(x, y) ==
    {k \in 1..Len(analysis.queried) :
        {lower(analysis.queried[k][1]), lower(analysis.queried[k][2])} = {x, y}}

\* the lookups that found a record, in the order they were made
QueriesWithRecord ==
    LET found(q) == MatchingRows(drug_interactions, q[1], q[2]) # {}
    IN  SelectSeq(analysis.queried, found)

\* C23: when check_interactions returns, it has looked up every unordered
\* pair of medication names that differ once trimmed and lower-cased exactly
\* once; every lookup is for two names of the list that differ in more than
\* case, so a drug listed twice is never paired with itself; and the
\* interactions returned are the lookups that found a record, in their order.
C23_EveryDistinctPairQueriedOnce ==
    (rx_pc = "done" /\ analysis.status = "ok") =>
        /\ \A i, j \in 1..Len(meds) :
            (NameGiven(meds[i]) /\ NameGiven(meds[j])
                /\ LookupName(meds[i]) # LookupName(meds[j])) =>
                Cardinality(QueriesFor(LookupName(meds[i]), LookupName(meds[j]))) = 1
        /\ \A k \in 1..Len(analysis.queried) :
            /\ lower(analysis.queried[k][1]) # lower(analysis.queried[k][2])
            /\ \E i, j \in 1..Len(meds) :
                /\ NameGiven(meds[i]) /\ NameGiven(meds[j])
                /\ analysis.queried[k] = <<strip(meds[i].name), strip(meds[j].name)>>
        /\ Len(analysis.interactions) = Len(QueriesWithRecord)
        /\ \A k \in 1..Len(analysis.interactions) :
            /\ <<analysis.interactions[k].drugA, analysis.interactions[k].drugB>>
                    = QueriesWithRecord[k]
            /\ lower(analysis.interactions[k].drugA) # lower(analysis.interactions[k].drugB)

\* aspirin is listed twice in different case next to warfarin: one lookup,
\* one interaction
C23_Witness ==
    /\ rx_pc = "done" /\ analysis.status = "ok"
    /\ Len(meds) = 3
    /\ \A i \in 1..3 : NameGiven(meds[i])
    /\ meds[1].name = Str("aspirin", TRUE, FALSE)
    /\ meds[2].name.base = "warfarin"
    /\ meds[3].name = Str("aspirin", FALSE, TRUE)
    /\ Len(analysis.queried) = 1
    /\ Len(analysis.interactions) = 1

\* C24: the summary of a result is "All medications look within expected
\* ranges." exactly when the result holds no interaction and no finding.
C24_DefaultSummaryIffNoIssue ==
    (rx_pc = "done" /\ analysis.status = "ok") =>
        (analysis.summary = <<"All medications look within expected ranges.">>
            <=> (analysis.interactions = <<>> /\ analysis.findings = <<>>))

\* C25: the flags of a result are one flag per interaction, in order,
\* followed by one flag per finding, in order; an interaction's flag has
\* severity "high" when the interaction is major or contraindicated, "medium"
\* when it is moderate and "low" otherwise, and names the two drugs and the
\* description; a finding's flag has the finding's severity and message; every
\* flag severity is low, medium or high.
C25_OneFlagPerInteractionAndFinding ==
    (rx_pc = "done" /\ analysis.status = "ok") =>
        LET n == Len(analysis.interactions)
        IN  /\ Len(analysis.flags) = n + Len(analysis.findings)
            /\ \A k \in 1..n :
                /\ analysis.interactions[k].severity \in {"major", "contraindicated"}
                        => analysis.flags[k].severity = "high"
                /\ analysis.interactions[k].severity = "moderate"
                        => analysis.flags[k].severity = "medium"
                /\ analysis.interactions[k].severity \notin {"major", "contraindicated", "moderate"}
                        => analysis.flags[k].severity = "low"
                /\ analysis.flags[k].message
                        = <<"Interaction", analysis.interactions[k].drugA,
                            analysis.interactions[k].drugB, analysis.interactions[k].description>>
            /\ \A k \in 1..Len(analysis.findings) :
                /\ analysis.flags[n + k].severity = analysis.findings[k].severity
                /\ analysis.flags[n + k].message = analysis.findings[k].message
            /\ \A k \in 1..Len(analysis.flags) :
                analysis.flags[k].severity \in {"low", "medium", "high"}

\* a contraindicated interaction, a medium dose finding and a low frequency
\* finding: three flags, high, medium and low
C25_Witness ==
    /\ rx_pc = "done" /\ analysis.status = "ok"
    /\ Len(analysis.interactions) = 1
    /\ analysis.interactions[1].severity = "contraindicated"
    /\ Len(analysis.findings) = 2
    /\ Len(analysis.flags) = 3
    /\ analysis.flags[1].severity = "high"
    /\ analysis.flags[2].severity = "medium"
    /\ analysis.flags[3].severity = "low"

\* the rows of the table that match the names of medications i and j
RowsMatching(i, j) == {r \in drug_interactions : MatchesRow(i, j, r)}

\* two medications of the list with different names have several rows
SomePairHasSeveralRows ==
    \E i, j \in 1..Len(meds) :
        /\ NameGiven(meds[i]) /\ NameGiven(meds[j])
        /\ LookupName(meds[i]) # LookupName(meds[j])
        /\ Cardinality(RowsMatching(i, j)) > 1

\* C28: when the table holds two or more rows matching the same pair of
\* medication names of the list, check_interactions raises and
\* analyze_prescription returns no result; a result reports an interaction
\* for two names only when exactly one row matches them.
C28_SeveralRowsRaise ==
    rx_pc = "done" =>
        /\ SomePairHasSeveralRows => analysis.status = "raised"
        /\ analysis.status = "ok" =>
            \A k \in 1..Len(analysis.interactions) :
                Cardinality(MatchingRows(drug_interactions, analysis.interactions[k].drugA,
                                         analysis.interactions[k].drugB)) = 1

\* aspirin and warfarin are listed, the table stores the pair twice the same
\* way round in different case, and the call raised
C28_Witness ==
    /\ rx_pc = "done"
    /\ analysis.status = "raised"
    /\ Len(meds) = 2
    /\ NameGiven(meds[1]) /\ NameGiven(meds[2])
    /\ {LookupName(meds[1]).base, LookupName(meds[2]).base} = {"aspirin", "warfarin"}
    /\ \E r1, r2 \in drug_interactions :
        /\ r1.drug_a.base = "aspirin" /\ r2.drug_a.base = "aspirin"
        /\ r1.drug_a.caps # r2.drug_a.caps

(***************************************************************************)
(* _parse_free_text_prescription on its own: the text is any sequence of   *)
(* up to MaxLines lines.                                                   *)
(***************************************************************************)
LineInputs ==
    {Str("tab. aspirin", TRUE, FALSE), Str("tab. aspirin", FALSE, TRUE),
     Str("3. amoxicillin", TRUE, TRUE),
     Str("1 tablet twice daily", FALSE, FALSE),
     Str("6. ibuprofen", TRUE, FALSE),
     Str("500 mg", FALSE, TRUE),
     Str("650 mg three times a day", FALSE, FALSE),
     Str("twice daily", TRUE, FALSE),
     Str("every 8 hours with food", FALSE, FALSE),
     Str("after meals", TRUE, FALSE),
     Str("gargle as needed", FALSE, FALSE),
     Str("", FALSE, TRUE)}

InitParse ==
    /\ AnomalyIdle
    /\ RiskIdle
    /\ StoreIdle
    /\ meds = <<>>
    /\ drug_interactions = {}
    /\ analysis = [status |-> "none"]
    /\ rx_pc = "call"
    /\ ocr_text \in SeqsUpTo(LineInputs, MaxLines)

ParseFreeTextPrescription ==
    /\ rx_pc = "call"
    /\ meds' = _parse_free_text_prescription(ocr_text)
    /\ rx_pc' = "done"
    /\ UNCHANGED <<ocr_text, drug_interactions, analysis, anomaly_vars, risk_vars, store_vars>>

NextParse == ParseFreeTextPrescription

SpecParse == InitParse /\ [][NextParse]_vars

\* the lines the parser goes through
ParsedLines == nonblank_lines(ocr_text)

\* the positions of the header lines, in order
HeaderPositions ==
    LET header(i) == header_line(ParsedLines[i])
    IN  SelectSeq([i \in 1..Len(ParsedLines) |-> i], header)

\* the positions between the k-th header line and the next one
LinesUnder(k) ==
    {i \in 1..Len(ParsedLines) :
        /\ i > HeaderPositions[k]
        /\ k < Len(HeaderPositions) => i < HeaderPositions[k + 1]}

\* the kind of a line that is no header: the first pattern it matches
LineKind(ln) ==
    IF dose_line(ln) THEN "dose"
    ELSE IF frequency_line(ln) THEN "frequency"
    ELSE IF instruction_line(ln) THEN "instructions"
    ELSE "none"

\* the last line of a kind under the k-th header, "" when there is none
LastUnder(k, kind) ==
    LET S == {i \in LinesUnder(k) : LineKind(ParsedLines[i]) = kind}
    IN  IF S = {} THEN EmptyStr
        ELSE ParsedLines[CHOOSE i \in S : \A j \in S : j <= i]

\* the lines of a kind under the k-th header, in order
AllUnder(k, kind) ==
    LET under(i) == i \in LinesUnder(k) /\ LineKind(ParsedLines[i]) = kind
        S == SelectSeq([i \in 1..Len(ParsedLines) |-> i], under)
    IN  [j \in 1..Len(S) |-> ParsedLines[S[j]]]

\* C26: the parser returns on every text, and its result holds one medication
\* per header line, in the order of the header lines; the k-th medication has
\* the name taken from the k-th header line, as dose and as frequency the last
\* dose line and the last frequency line between that header and the next
\* ("" when there is none), and as instructions the instruction lines between
\* them; lines before the first header line and lines of no kind change
\* nothing.
C26_OneMedicationPerHeader ==
    rx_pc = "done" =>
        /\ Len(meds) = Len(HeaderPositions)
        /\ \A k \in 1..Len(HeaderPositions) :
            /\ meds[k].name = strip(header_name(ParsedLines[HeaderPositions[k]]))
            /\ meds[k].dose = LastUnder(k, "dose")
            /\ meds[k].frequency = LastUnder(k, "frequency")
            /\ meds[k].instructions = AllUnder(k, "instructions")

\* a dose line before the first header, then a header followed by two dose
\* lines: one medication with the later dose
C26_Witness ==
    /\ rx_pc = "done"
    /\ Len(ParsedLines) = 4
    /\ dose_line(ParsedLines[1]) /\ ~header_line(ParsedLines[1])
    /\ HeaderPositions = <<2>>
    /\ LineKind(ParsedLines[3]) = "dose" /\ LineKind(ParsedLines[4]) = "dose"
    /\ ParsedLines[3] # ParsedLines[4]
    /\ Len(meds) = 1
    /\ meds[1].dose = ParsedLines[4]

\* two headers, a line of no kind between them and a frequency line under
\* the second
C26_TwoHeadersReached ==
    /\ rx_pc = "done"
    /\ Len(ParsedLines) = 4
    /\ HeaderPositions = <<1, 3>>
    /\ ~header_line(ParsedLines[2]) /\ LineKind(ParsedLines[2]) = "none"
    /\ Len(meds) = 2
    /\ meds[1].frequency = EmptyStr
    /\ meds[2].frequency = ParsedLines[4]

(***************************************************************************)
(* POST /{patient_id}/vitals with readings around the thresholds of the    *)
(* two blood-pressure ladders.                                             *)
(***************************************************************************)
LadderSystolics == {None, 0, 120, 139, 140, 159, 160, 179, 180, 181}

LadderDiastolics == {None, 0, 89, 90, 99, 100, 119, 120, 121}

LadderPayloads ==
    {VitalsPayload(s, d, None, None, None, None, None) :
        s \in LadderSystolics, d \in LadderDiastolics}
        \cup {VitalsPayload(181, 121, 135, None, None, None, None),
              VitalsPayload(None, None, 70, 3700, 100, 98, 7000)}

LadderAddVitals ==
    /\ \E u \in UserIds, pid \in RequestedPatientIds, payload \in LadderPayloads :
           add_vitals(u, pid, payload)
    /\ StoreFrame

NextLadder == LadderAddVitals

SpecLadder == Init /\ [][NextLadder]_vars

\* the alerts add_vitals created with the reading of a row
AlertsCreatedWith(row) ==
    {j \in 1..Len(alerts) :
        alerts[j].patient_id = row.patient_id /\ alerts[j].generated_at = row.recorded_at}

BloodPressureTitles ==
    {"Hypertensive Crisis", "Severely Elevated Blood Pressure", "Elevated Blood Pressure"}

\* the emergency pass on the reading of a row finds a blood-pressure crisis
EmergencyCrisis(row) ==
    LET findings == _check_emergency_thresholds(
                        Vitals(row.systolic, row.diastolic, row.heart_rate, None,
                               row.blood_glucose, row.oxygen_saturation))
    IN  \E k \in 1..Len(findings) :
            /\ findings[k].severity = "urgent"
            /\ findings[k].title \in {"Hypertensive Crisis", "Diastolic Hypertensive Crisis"}

\* the title of the highest tier that the systolic or the diastolic value of a
\* row reaches, "" when neither reaches one
HighestTier(row) ==
    LET s == IF row.systolic = None THEN 0 ELSE row.systolic
        d == IF row.diastolic = None THEN 0 ELSE row.diastolic
    IN  IF s >= 180 \/ d >= 120 THEN "Hypertensive Crisis"
        ELSE IF s >= 160 \/ d >= 100 THEN "Severely Elevated Blood Pressure"
        ELSE IF s >= 140 \/ d >= 90 THEN "Elevated Blood Pressure"
        ELSE ""

AllFieldsAbsent(row) ==
    /\ row.systolic = None /\ row.diastolic = None /\ row.heart_rate = None
    /\ row.temperature = None /\ row.blood_glucose = None
    /\ row.oxygen_saturation = None

\* C27: for every stored reading on which the emergency pass finds an urgent
\* "Hypertensive Crisis" or "Diastolic Hypertensive Crisis", add_vitals
\* created a critical "Hypertensive Crisis" alert; add_vitals created at most
\* one blood-pressure alert with a reading, that of the highest tier its
\* systolic or diastolic value reaches; and with a reading whose fields are
\* all absent it created no alert.
C27_CrisisFindingImpliesCrisisAlert ==
    \A i \in 1..Len(vitals) :
        LET row == vitals[i]
            created == AlertsCreatedWith(row)
            pressure == {j \in created : alerts[j].title \in BloodPressureTitles}
        IN  /\ EmergencyCrisis(row) =>
                \E j \in created :
                    alerts[j].severity = "critical" /\ alerts[j].title = "Hypertensive Crisis"
            /\ Cardinality(pressure) <= 1
            /\ \A j \in pressure : alerts[j].title = HighestTier(row)
            /\ HighestTier(row) # "" => pressure # {}
            /\ AllFieldsAbsent(row) => created = {}

\* a reading of 120 over 121: the emergency pass finds a diastolic crisis and
\* the one alert stored with the reading is the critical one
C27_Witness ==
    /\ Len(vitals) = 1
    /\ vitals[1].systolic = 120 /\ vitals[1].diastolic = 121
    /\ EmergencyCrisis(vitals[1])
    /\ Len(alerts) = 1
    /\ alerts[1].severity = "critical" /\ alerts[1].title = "Hypertensive Crisis"

\* a reading with no field at all is stored without any alert
C27_AbsentReadingReached ==
    /\ Len(vitals) = 1
    /\ AllFieldsAbsent(vitals[1])
    /\ alerts = <<>>

(***************************************************************************)
(* Claims about PATCH /{patient_id}/prescriptions/{prescription_id}        *)
(* (Spec).                                                                 *)
(***************************************************************************)
AdjustmentFlag(u) == [severity |-> "low", message |-> <<"Adjusted by user", u>>]

\* the step is a successful update_prescription call
SuccessfulAdjustment ==
    /\ response'.status = 200
    /\ response'.kind = "update_prescription"
    /\ clock' # clock

\* C29: every successful update_prescription call appends one low-severity
\* "Adjusted by user <id>" flag to the stored flags of its prescription,
\* keeps the earlier flags and the other prescriptions, and adds one mild
\* alert to the store.
C29_EachAdjustmentAppendsOneFlag ==
    [][SuccessfulAdjustment =>
        /\ \E id \in 1..Len(prescriptions), u \in UserIds :
            /\ prescriptions'[id].flags = Append(prescriptions[id].flags, AdjustmentFlag(u))
            /\ \A other \in 1..Len(prescriptions) :
                other # id => prescriptions'[other] = prescriptions[other]
        /\ Len(alerts') = Len(alerts) + 1
        /\ alerts'[Len(alerts')].severity = "mild"
        /\ alerts'[Len(alerts')].title = "Prescription Adjusted"]_vars

====
